---- MODULE Spec2Model ----
(***************************************************************************)
(* SmartSpiderV2: the crawl engine's task registry and execution units     *)
(* (engine/crawler.py), the task service's status bookkeeping              *)
(* (services/task_service.py), the priority queue                          *)
(* (core/priority_queue.py) and the request fingerprinter and deduplicator *)
(* (core/request_fingerprint.py) and the retry handler and circuit breaker *)
(* (engine/retry_handler.py), modelled as state machines.                  *)
(*                                                                         *)
(* Concurrency is asyncio's: one event loop, a coroutine runs without      *)
(* interruption from one suspension point (an await that really waits) to  *)
(* the next.  Each action below is one such uninterrupted stretch.         *)
(* CancelledError is a BaseException (Python >= 3.8): "except Exception"   *)
(* does not catch it.                                                      *)
(***************************************************************************)
EXTENDS Integers, Sequences, FiniteSets, TLC

\* ------------------------------------------------------------------ bounds
MaxUrls == 3
MaxItems == 2
MaxUnits == 3
MaxPuts == 3
MaxSize == 2
MaxOrder == 3
MaxStore == 2
MaxTtl == 1
MaxTime == 3
MaxParams == 2
MaxRetries == 2
MaxThreshold == 2
MaxRecovery == 2
MaxSeconds == 3
MaxCalls == 11
MaxBatch == 3
MaxLimit == 2
MaxLoops == 1
MaxRules == 2

TaskIds == {"t1"}
Callers == {"c1", "c2"}

\* what one URL of the loop can come to (crawler.py 91-132)
Outcomes == {"ok", "empty", "non200", "download_error", "parse_error"}

\* a task configuration as the tasks table holds it (TaskService.create_task
\* writes it once): the URL list is <<1, ..., nurls>>; max_items 0 stands for
\* None (both are falsy at crawler.py 137)
Configs == [nurls : 0..MaxUrls, max_items : 0..MaxItems]

VARIABLES
    active_tasks,   \* CrawlerEngine.active_tasks: task id -> unit (index in units)
    results,        \* CrawlerEngine.results: task id -> list of records (the URL of each)
    units,          \* every execution unit (asyncio.Task of _run_crawler) created so far
    call,           \* per caller: the call it is suspended in, if any
    last,           \* the call that completed last: who, what, and its outcome
    status,         \* tasks table: task id -> status column
    config,         \* tasks table: task id -> config column
    \* PriorityQueue
    queue,          \* _queue: the heap list of PriorityItem
    item_map,       \* _item_map: item_id -> the PriorityItem object (its put number)
    maxsize,        \* _maxsize
    now,            \* the last reading of the wall clock (datetime.now())
    nput,           \* the number of put calls so far (numbers the objects)
    qlast,          \* the queue call that completed last and what it returned or raised
    \* RequestDeduplicator (memory backend)
    seen_requests,  \* seen_requests: fingerprint -> its metadata
    request_order,  \* request_order: the list of fingerprints appended by add_fingerprint
    max_size,       \* max_size
    ttl,            \* ttl in seconds, 0 for None (both falsy at request_fingerprint.py 197)
    clock,          \* the last reading of time.time(), in half seconds
    dlast,          \* the deduplicator call that completed last and what it returned
    \* RequestFingerprinter
    fpr,            \* a fingerprinter's settings, two requests and their digests
    \* RetryHandler
    handler,        \* the handler's settings
    run,            \* one execute_with_retry call: its locals and the operation's script
    \* CircuitBreaker
    breaker,        \* the breaker's fields
    bcall,          \* the call in progress, and how the last call started and ended
    bnow,           \* datetime.now(), in seconds
    \* AdaptiveRetryHandler
    adaptive,       \* the handler's settings, counters and adapted values
    acall,          \* per caller: the execute_with_retry call it is suspended in
    alast,          \* the call that completed last: what it started from and did
    \* EnhancedDownloader._single_request
    req,            \* one _single_request call: what it met and how it ended
    \* download_batch
    batch,          \* one download_batch call: its semaphore, coroutines and result
    \* TaskScheduler
    scheduled_tasks, \* scheduled_tasks: the task ids, in the order of the dict
    sobj,           \* the ScheduledTask objects, by task id
    sched,          \* running, and the _schedule_loop tasks created so far
    snow,           \* datetime.now(), in seconds
    \* the engine's URL loop over Downloader.download
    fetch,
    \* Parser.parse_html
    parse

engineVars == <<active_tasks, results, units, call, last, status, config>>
queueVars == <<queue, item_map, maxsize, now, nput, qlast>>
dedupVars == <<seen_requests, request_order, max_size, ttl, clock, dlast>>
retryVars == <<handler, run>>
breakerVars == <<breaker, bcall, bnow>>
adaptiveVars == <<adaptive, acall, alast>>
requestVars == <<req>>
batchVars == <<batch>>
schedVars == <<scheduled_tasks, sobj, sched, snow>>
fetchVars == <<fetch>>
parseVars == <<parse>>
nonEngineVars == <<queueVars, dedupVars, fpr, retryVars, breakerVars, adaptiveVars, requestVars, batchVars, schedVars, fetchVars, parseVars>>
nonQueueVars == <<engineVars, dedupVars, fpr, retryVars, breakerVars, adaptiveVars, requestVars, batchVars, schedVars, fetchVars, parseVars>>
nonDedupVars == <<engineVars, queueVars, fpr, retryVars, breakerVars, adaptiveVars, requestVars, batchVars, schedVars, fetchVars, parseVars>>
nonFprVars == <<engineVars, queueVars, dedupVars, retryVars, breakerVars, adaptiveVars, requestVars, batchVars, schedVars, fetchVars, parseVars>>
nonRetryVars == <<engineVars, queueVars, dedupVars, fpr, breakerVars, adaptiveVars, requestVars, batchVars, schedVars, fetchVars, parseVars>>
nonBreakerVars == <<engineVars, queueVars, dedupVars, fpr, retryVars, adaptiveVars, requestVars, batchVars, schedVars, fetchVars, parseVars>>
nonAdaptiveVars == <<engineVars, queueVars, dedupVars, fpr, retryVars, breakerVars, requestVars, batchVars, schedVars, fetchVars, parseVars>>
nonRequestVars == <<engineVars, queueVars, dedupVars, fpr, retryVars, breakerVars, adaptiveVars, batchVars, schedVars, fetchVars, parseVars>>
nonBatchVars == <<engineVars, queueVars, dedupVars, fpr, retryVars, breakerVars, adaptiveVars, requestVars, schedVars, fetchVars, parseVars>>
nonSchedVars == <<engineVars, queueVars, dedupVars, fpr, retryVars, breakerVars, adaptiveVars, requestVars, batchVars, fetchVars, parseVars>>
nonFetchVars == <<engineVars, queueVars, dedupVars, fpr, retryVars, breakerVars, adaptiveVars, requestVars, batchVars, schedVars, parseVars>>
nonParseVars == <<engineVars, queueVars, dedupVars, fpr, retryVars, breakerVars, adaptiveVars, requestVars, batchVars, schedVars, fetchVars>>
vars == <<engineVars, queueVars, dedupVars, fpr, retryVars, breakerVars, adaptiveVars, requestVars, batchVars, schedVars, fetchVars, parseVars>>

\* ------------------------------------------------------------ dictionaries
Min(a, b) == IF a <= b THEN a ELSE b
Max(a, b) == IF a >= b THEN a ELSE b
EmptyMap == [k \in {} |-> 0]
MapPut(m, k, v) == [x \in (DOMAIN m) \cup {k} |-> IF x = k THEN v ELSE m[x]]
MapDel(m, k) == [x \in (DOMAIN m) \ {k} |-> m[x]]

\* --------------------------------------------------------- execution units
\* pc: "created"   the asyncio.Task exists, its coroutine has not run yet
\*     "download"  suspended in downloader.download of URL idx
\*     "closing"   loop left, suspended in Downloader.__aexit__ (session.close)
\*     "completed" | "cancelled" | "failed"   the task is done
\* dels counts the "del self.active_tasks[...]" statements executed on behalf of
\* this unit's registration (by its own finally and by the stop_task calls that
\* cancelled it)
NewUnit(id) ==
    [id |-> id, pc |-> "created", idx |-> 0, must_cancel |-> FALSE, dels |-> 0]

UnitDone(u) == units[u].pc \in {"completed", "cancelled", "failed"}

\* a caller's position: op "idle", or the call it is suspended in; pc is the
\* await it waits at, unit the task a stop_task cancelled and at where that
\* task was then, write the status its commit will store, res what the call
\* will return or raise after the commit
IdleCall == [op |-> "idle", pc |-> "idle", id |-> "t1", unit |-> 0, at |-> "none",
             write |-> "none", res |-> "none"]
Suspended(op, pc, id, write, res) ==
    [op |-> op, pc |-> pc, id |-> id, unit |-> 0, at |-> "none", write |-> write,
     res |-> res]
Awaiting(op, id, u) ==
    [op |-> op, pc |-> "await_unit", id |-> id, unit |-> u, at |-> units[u].pc,
     write |-> "none", res |-> "none"]
NoCall == [op |-> "none", id |-> "t1", res |-> "none"]

\* caller c's call op(id) returns or raises res
Complete(c, op, id, res) == last' = [op |-> op, id |-> id, res |-> res]

\* a queue item: seq is the number of the put that made the object
NoItem == [priority |-> -1, timestamp |-> -1, item_id |-> -1, seq |-> 0]
NoQCall == [op |-> "none", res |-> "none", priority |-> -1]

\* PriorityQueue(maxsize = m), nothing queued yet
QueueInit(m) ==
    /\ queue = <<>>
    /\ item_map = EmptyMap
    /\ maxsize = m
    /\ now = 0
    /\ nput = 0
    /\ qlast = NoQCall

\* RequestDeduplicator(max_size = ms, ttl = tl), nothing stored yet
NoDCall == [op |-> "none", fp |-> "none", res |-> "none"]
DedupInit(ms, tl) ==
    /\ seen_requests = EmptyMap
    /\ request_order = <<>>
    /\ max_size = ms
    /\ ttl = tl
    /\ clock = 0
    /\ dlast = NoDCall

\* no fingerprint asked for
NoFpr == [sort_parameters |-> TRUE, ignore_params |-> {}, method |-> "GET",
          host |-> "x.com", path |-> "", q1 |-> <<>>, q2 |-> <<>>,
          d1 |-> <<>>, d2 |-> <<>>, done |-> FALSE]

\* no exception
NoException == [type |-> "none", status |-> 0, n |-> 0]

\* a RetryHandler with these settings, and a call of execute_with_retry on
\* an operation that fails its first fail_times invocations
RetryInit(mr, rot, rorl, codes, excs, ft) ==
    /\ handler = [max_retries |-> mr, retry_on_timeout |-> rot,
                  retry_on_rate_limit |-> rorl,
                  status_codes |-> codes, exceptions |-> excs]
    /\ run = [pc |-> "loop", attempt |-> 0, calls |-> 0,
              last_exception |-> NoException, raised |-> NoException,
              result |-> "none", fail_times |-> ft]

\* last_failure_time = None
NoTime == -1

\* no call made yet
NoBCall == [pc |-> "idle", op |-> "none", elapsed |-> NoTime, streak |-> 0]

\* a new CircuitBreaker
BreakerInit(ft, rt, ee) ==
    /\ breaker = [failure_threshold |-> ft, recovery_timeout |-> rt,
                  expected_exception |-> ee,
                  failure_count |-> 0, last_failure_time |-> NoTime,
                  state |-> "closed"]
    /\ bcall = NoBCall
    /\ bnow = 0

\* no call of the adaptive handler in progress, none completed
NoACall == [pc |-> "idle", limit |-> 0, counted |-> 0,
            adaptive_max_retries |-> 0, adaptive_base_delay |-> 0]
NoALast == [op |-> "none", attempts |-> 0, base_delay |-> 0, counted |-> 0,
            adaptive_max_retries |-> 0, adaptive_base_delay |-> 0]

\* a new AdaptiveRetryHandler(max_retries, base_delay); delays in tenths of
\* a second
AdaptiveInit(mr, bd) ==
    /\ adaptive = [max_retries |-> mr, base_delay |-> bd,
                   success_count |-> 0, failure_count |-> 0, request_count |-> 0,
                   adaptive_base_delay |-> bd, adaptive_max_retries |-> mr]
    /\ acall = [c \in Callers |-> NoACall]
    /\ alast = NoALast

\* no request made
NoOutcome == [kind |-> "none", type |-> "none", status |-> 0]
NoReq == [met |-> NoOutcome, proxy |-> FALSE, cookies |-> FALSE,
          retry_after |-> "none", status_codes |-> {}, out |-> NoOutcome]

\* a download_batch call on n URLs, up to the gather: one coroutine per
\* URL, none started
NoEntry == [of |-> 0, kind |-> "none"]
BatchOf(n, lim, enh) ==
    [enhanced |-> enh, limit |-> lim, value |-> lim,
     pc |-> [i \in 1..n |-> "created"], out |-> [i \in 1..n |-> NoEntry],
     state |-> "gathering", result |-> <<>>]
NoBatch == BatchOf(0, 1, FALSE)

\* the three kinds of scheduled task, one task of each
SchedIds == {"interval", "one_time", "cron"}

\* a task not added yet; fires counts its _run_task calls and fired_pass is
\* the current_time of the pass that made the last of them
NoSTask == [status |-> "absent", last_run |-> NoTime, next_run |-> NoTime,
            interval_seconds |-> 0, fires |-> 0, fired_pass |-> NoTime]

\* no _schedule_loop task in this slot
NoLoop == [pc |-> "none", current_time |-> NoTime, snapshot |-> <<>>, idx |-> 0,
           wake |-> NoTime]

\* a new TaskScheduler
SchedInit ==
    /\ scheduled_tasks = <<>>
    /\ sobj = [id \in SchedIds |-> NoSTask]
    /\ sched = [running |-> FALSE, loops |-> [l \in 1..MaxLoops |-> NoLoop]]
    /\ snow = 0


\* the URL loop of one _run_crawler over a Downloader made with
\* config.crawler: nothing fetched yet
NoFetch == [retry_times |-> 0, pc |-> "none", attempts |-> 0, log |-> <<>>]
FetchOf(rt) == [NoFetch EXCEPT !.retry_times = rt, !.pc = "loop"]


\* no Parser
NoParse == [config |-> [selector_type |-> "none", rules |-> <<>>,
                        clean_whitespace |-> FALSE, clean_html |-> FALSE],
            pc |-> "none", result |-> <<>>]

EngineInit(cfgs) ==
    /\ active_tasks = EmptyMap
    /\ results = EmptyMap
    /\ units = <<>>
    /\ call = [c \in Callers |-> IdleCall]
    /\ last = NoCall
    /\ status = [t \in TaskIds |-> "pending"]
    /\ config \in cfgs

\* the engine and the task rows as created (status PENDING, any configuration)
Init ==
    /\ EngineInit([TaskIds -> Configs])
    /\ QueueInit(0)
    /\ AdaptiveInit(0, 10)
    /\ req = NoReq
    /\ batch = NoBatch
    /\ SchedInit
    /\ fetch = NoFetch
    /\ parse = NoParse
    /\ DedupInit(1, 0)
    /\ fpr = NoFpr
    /\ RetryInit(0, TRUE, TRUE, {}, EmptyMap, 0)
    /\ BreakerInit(1, 1, "Exception")

\* ------------------------------------------------- CrawlerEngine.start_task
\* StartOutcome without the "already running" test
StartOutcome_NoConflictTest(id) ==
    IF config[id].nurls = 0 THEN "CrawlerException" ELSE "ok"

\* what start_task(id, config[id]) comes to: the exception it raises, or "ok"
StartOutcome(id) ==
    IF id \in DOMAIN active_tasks THEN "TaskConflictException"
    ELSE IF config[id].nurls = 0 THEN "CrawlerException"
    ELSE "ok"

\* start_task has no suspension point: check, create_task, register, return
EngineStart(id) ==
    /\ IF StartOutcome(id) = "ok"
       THEN /\ units' = Append(units, NewUnit(id))
            /\ active_tasks' = MapPut(active_tasks, id, Len(units) + 1)
       ELSE UNCHANGED <<units, active_tasks>>
    /\ UNCHANGED results

start_task(c, id) ==
    /\ UNCHANGED nonEngineVars
    /\ call[c].op = "idle"
    /\ StartOutcome(id) = "ok" => Len(units) < MaxUnits
    /\ EngineStart(id)
    /\ Complete(c, "start", id, StartOutcome(id))
    /\ UNCHANGED <<call, status, config>>

\* -------------------------------------------------- CrawlerEngine.stop_task
\* task.cancel(): a task that is not done gets CancelledError at its next step
Cancel(us, u) ==
    IF us[u].pc \in {"completed", "cancelled", "failed"} THEN us
    ELSE [us EXCEPT ![u].must_cancel = TRUE]

\* "del self.active_tasks[task_id]" of a stop_task that cancelled unit u: the
\* registry loses whatever entry id has; KeyError when it has none
StopDelOutcome(id) == IF id \in DOMAIN active_tasks THEN "True" ELSE "KeyError"

StopDel(us, id, u) ==
    /\ active_tasks' = MapDel(active_tasks, id)
    /\ units' = [us EXCEPT ![u].dels = @ + 1]

\* stop_task up to its first suspension; awaiting a task that is already done
\* does not suspend
stop_task(c, id) ==
    /\ UNCHANGED nonEngineVars
    /\ call[c].op = "idle"
    /\ UNCHANGED <<results, status, config>>
    /\ IF id \notin DOMAIN active_tasks
       THEN /\ Complete(c, "stop", id, "False")
            /\ UNCHANGED <<active_tasks, units, call>>
       ELSE LET u == active_tasks[id] IN
            IF UnitDone(u)
            THEN /\ StopDel(units, id, u)
                 /\ Complete(c, "stop", id, StopDelOutcome(id))
                 /\ UNCHANGED call
            ELSE /\ units' = Cancel(units, u)
                 /\ call' = [call EXCEPT ![c] = Awaiting("stop", id, u)]
                 /\ UNCHANGED <<active_tasks, last>>

\* the awaited unit is done: CancelledError is swallowed, then the del
stop_task_resume(c) ==
    /\ UNCHANGED nonEngineVars
    /\ call[c].op = "stop"
    /\ call[c].pc = "await_unit"
    /\ UnitDone(call[c].unit)
    /\ StopDel(units, call[c].id, call[c].unit)
    /\ Complete(c, "stop", call[c].id, StopDelOutcome(call[c].id))
    /\ call' = [call EXCEPT ![c] = IdleCall]
    /\ UNCHANGED <<results, status, config>>

\* ------------------------------------------------ CrawlerEngine._run_crawler
\* the "finally" of _run_crawler: remove the id if the registry has it; the
\* coroutine's locals (the loop position) are gone with it
Finally(us, u, pc) ==
    IF us[u].id \in DOMAIN active_tasks
    THEN /\ active_tasks' = MapDel(active_tasks, us[u].id)
         /\ units' = [us EXCEPT ![u].pc = pc, ![u].idx = 0, ![u].dels = @ + 1]
    ELSE /\ active_tasks' = active_tasks
         /\ units' = [us EXCEPT ![u].pc = pc, ![u].idx = 0]

\* the head of "for url in config.urls" for URL i, up to the next suspension:
\* the download of URL i, or the close of the downloader once the loop is left
LoopHead(us, u, i) ==
    IF i > config[us[u].id].nurls \/ us[u].id \notin DOMAIN active_tasks
    THEN [us EXCEPT ![u].pc = "closing"]
    ELSE [us EXCEPT ![u].pc = "download", ![u].idx = i]

\* AfterUrl without the max_items test
AfterUrl_NoLimit(us, u, n) == LoopHead(us, u, us[u].idx + 1)

\* the max_items test after URL idx, then the loop head of the next URL
AfterUrl(us, u, n) ==
    IF config[us[u].id].max_items # 0 /\ n >= config[us[u].id].max_items
    THEN [us EXCEPT ![u].pc = "closing"]
    ELSE LoopHead(us, u, us[u].idx + 1)

\* a stop_task of the id of unit u waits for a unit created before u that
\* is done: its wake-up was scheduled when that unit ended, before u was
\* created, and the event loop runs what is ready in the order it was scheduled
WakeUpBefore(u) ==
    \E c \in Callers :
        /\ call[c].pc = "await_unit"
        /\ call[c].unit < u
        /\ units[call[c].unit].id = units[u].id
        /\ UnitDone(call[c].unit)

\* first step of the task, the one create_task scheduled: a task cancelled
\* before it ever ran executes none of the coroutine (not even its finally);
\* otherwise the result list is reset and the downloader and parser are built,
\* which may raise
UnitStart(u, fails) ==
    /\ UNCHANGED nonEngineVars
    /\ units[u].pc = "created"
    /\ ~WakeUpBefore(u)
    /\ UNCHANGED <<call, last, status, config>>
    /\ IF units[u].must_cancel
       THEN /\ units' = [units EXCEPT ![u].pc = "cancelled"]
            /\ UNCHANGED <<active_tasks, results>>
       ELSE /\ results' = MapPut(results, units[u].id, <<>>)
            /\ IF fails
               THEN Finally(units, u, "failed")
               ELSE /\ units' = LoopHead(units, u, 1)
                    /\ UNCHANGED active_tasks

\* the download of URL idx returns or raises; on a 200 the parsed record is
\* appended; every other outcome is logged and the loop goes on
UrlRecords(o, url) == IF o = "ok" THEN <<url>> ELSE <<>>

\* UnitUrlDone with a failed URL ending the task as failed
UnitUrlDone_FailureAborts(u, o) ==
    /\ UNCHANGED nonEngineVars
    /\ units[u].pc = "download"
    /\ ~units[u].must_cancel
    /\ LET id == units[u].id
           rs == results[id] \o UrlRecords(o, units[u].idx)
       IN /\ results' = [results EXCEPT ![id] = rs]
          /\ IF o = "ok"
             THEN units' = AfterUrl(units, u, Len(rs)) /\ UNCHANGED active_tasks
             ELSE Finally(units, u, "failed")
    /\ UNCHANGED <<call, last, status, config>>

UnitUrlDone(u, o) ==
    /\ UNCHANGED nonEngineVars
    /\ units[u].pc = "download"
    /\ ~units[u].must_cancel
    /\ LET id == units[u].id
           rs == results[id] \o UrlRecords(o, units[u].idx)
       IN /\ results' = [results EXCEPT ![id] = rs]
          /\ units' = AfterUrl(units, u, Len(rs))
    /\ UNCHANGED <<active_tasks, call, last, status, config>>

\* the downloader is closed: normal completion
UnitCloseDone(u) ==
    /\ UNCHANGED nonEngineVars
    /\ units[u].pc = "closing"
    /\ ~units[u].must_cancel
    /\ Finally(units, u, "completed")
    /\ UNCHANGED <<results, call, last, status, config>>

\* CancelledError is thrown into the coroutine at its suspension point
UnitCancelled(u) ==
    /\ UNCHANGED nonEngineVars
    /\ units[u].pc \in {"download", "closing"}
    /\ units[u].must_cancel
    /\ Finally(units, u, "cancelled")
    /\ UNCHANGED <<results, call, last, status, config>>

UnitStep ==
    \/ \E u \in 1..Len(units), fails \in BOOLEAN : UnitStart(u, fails)
    \/ \E u \in 1..Len(units), o \in Outcomes : UnitUrlDone(u, o)
    \/ \E u \in 1..Len(units) : UnitCloseDone(u)
    \/ \E u \in 1..Len(units) : UnitCancelled(u)

\* ---------------------------------------------- the engine, called directly
EngineCall ==
    \E c \in Callers, id \in TaskIds :
        \/ start_task(c, id)
        \/ stop_task(c, id)

EngineResume == \E c \in Callers : stop_task_resume(c)

NextEngine == EngineCall \/ EngineResume \/ UnitStep

SpecEngine == Init /\ [][NextEngine]_vars

\* -------------------------------------------------- TaskService.start_task
\* the call up to its first suspension, the SELECT of the task row
svc_start_task(c, id) ==
    /\ UNCHANGED nonEngineVars
    /\ call[c].op = "idle"
    /\ call' = [call EXCEPT ![c] = Suspended("svc_start", "query", id, "none", "none")]
    /\ UNCHANGED <<active_tasks, results, units, last, status, config>>

\* the row is read; a task that is not PENDING is a conflict; otherwise the
\* engine is asked to start it and the new status waits for the commit: RUNNING,
\* or FAILED when the engine raised
svc_start_task_query(c) ==
    /\ UNCHANGED nonEngineVars
    /\ call[c].op = "svc_start"
    /\ call[c].pc = "query"
    /\ UNCHANGED <<status, config>>
    /\ LET id == call[c].id IN
       IF status[id] # "pending"
       THEN /\ Complete(c, "svc_start", id, "TaskConflictException")
            /\ call' = [call EXCEPT ![c] = IdleCall]
            /\ UNCHANGED <<active_tasks, results, units>>
       ELSE /\ StartOutcome(id) = "ok" => Len(units) < MaxUnits
            /\ EngineStart(id)
            /\ call' = [call EXCEPT ![c] =
                   IF StartOutcome(id) = "ok"
                   THEN Suspended("svc_start", "commit", id, "running", "True")
                   ELSE Suspended("svc_start", "commit", id, "failed", StartOutcome(id))]
            /\ UNCHANGED last

\* session.commit() stores the status; then the call returns True or re-raises
svc_start_task_commit(c) ==
    /\ UNCHANGED nonEngineVars
    /\ call[c].op = "svc_start"
    /\ call[c].pc = "commit"
    /\ status' = [status EXCEPT ![call[c].id] = call[c].write]
    /\ Complete(c, "svc_start", call[c].id, call[c].res)
    /\ call' = [call EXCEPT ![c] = IdleCall]
    /\ UNCHANGED <<active_tasks, results, units, config>>

\* --------------------------------------------------- TaskService.stop_task
svc_stop_task(c, id) ==
    /\ UNCHANGED nonEngineVars
    /\ call[c].op = "idle"
    /\ call' = [call EXCEPT ![c] = Suspended("svc_stop", "query", id, "none", "none")]
    /\ UNCHANGED <<active_tasks, results, units, last, status, config>>

\* the row is read; a task that is not RUNNING gives False; otherwise the
\* engine's stop_task runs up to its first suspension
svc_stop_task_query(c) ==
    /\ UNCHANGED nonEngineVars
    /\ call[c].op = "svc_stop"
    /\ call[c].pc = "query"
    /\ UNCHANGED <<results, status, config>>
    /\ LET id == call[c].id IN
       IF status[id] # "running" \/ id \notin DOMAIN active_tasks
       THEN /\ Complete(c, "svc_stop", id, "False")
            /\ call' = [call EXCEPT ![c] = IdleCall]
            /\ UNCHANGED <<active_tasks, units>>
       ELSE LET u == active_tasks[id] IN
            IF UnitDone(u)
            THEN /\ StopDel(units, id, u)
                 /\ call' = [call EXCEPT ![c] =
                        Suspended("svc_stop", "commit", id, "cancelled", "True")]
                 /\ UNCHANGED last
            ELSE /\ units' = Cancel(units, u)
                 /\ call' = [call EXCEPT ![c] = Awaiting("svc_stop", id, u)]
                 /\ UNCHANGED <<active_tasks, last>>

\* the engine's stop_task resumes: on True the CANCELLED status waits for the
\* commit; its KeyError is caught by "except Exception" and the call returns
\* False, the status left as it is
svc_stop_task_resume(c) ==
    /\ UNCHANGED nonEngineVars
    /\ call[c].op = "svc_stop"
    /\ call[c].pc = "await_unit"
    /\ UnitDone(call[c].unit)
    /\ StopDel(units, call[c].id, call[c].unit)
    /\ IF StopDelOutcome(call[c].id) = "True"
       THEN /\ call' = [call EXCEPT ![c] =
                   Suspended("svc_stop", "commit", call[c].id, "cancelled", "True")]
            /\ UNCHANGED last
       ELSE /\ Complete(c, "svc_stop", call[c].id, "False")
            /\ call' = [call EXCEPT ![c] = IdleCall]
    /\ UNCHANGED <<results, status, config>>

svc_stop_task_commit(c) ==
    /\ UNCHANGED nonEngineVars
    /\ call[c].op = "svc_stop"
    /\ call[c].pc = "commit"
    /\ status' = [status EXCEPT ![call[c].id] = call[c].write]
    /\ Complete(c, "svc_stop", call[c].id, call[c].res)
    /\ call' = [call EXCEPT ![c] = IdleCall]
    /\ UNCHANGED <<active_tasks, results, units, config>>

\* ------------------------------------------- the engine behind the service
ServiceCall ==
    \E c \in Callers, id \in TaskIds :
        \/ svc_start_task(c, id)
        \/ svc_stop_task(c, id)

ServiceResume ==
    \E c \in Callers :
        \/ svc_start_task_query(c)
        \/ svc_start_task_commit(c)
        \/ svc_stop_task_query(c)
        \/ svc_stop_task_resume(c)
        \/ svc_stop_task_commit(c)

NextService == ServiceCall \/ ServiceResume \/ UnitStep

SpecService == Init /\ [][NextService]_vars

\* the event loop runs every coroutine that is ready, and the database answers
\* every statement; nothing obliges a client to make another call
FairSpecService == SpecService /\ WF_vars(ServiceResume) /\ WF_vars(UnitStep)

\* ============================================================ PriorityQueue
\* Priority: CRITICAL = 0 and MINIMAL = 4, the two ends of the five ranks
PriorityValues == {0, 4}
\* item ids: put numbers the ids it generates (uuid4: never repeated) 1, 2, ...;
\* the ids a caller supplies are the others
GivenIds == {0}
NoId == -1

\* PriorityItem.__lt__
Lt(a, b) ==
    IF a.priority # b.priority THEN a.priority < b.priority
    ELSE a.timestamp < b.timestamp

\* the dataclass __eq__ list.remove compares with (payloads taken equal)
ItemEq(a, b) ==
    a.priority = b.priority /\ a.timestamp = b.timestamp /\ a.item_id = b.item_id

\* heapq works on 0-based positions
At(h, i) == h[i + 1]
Set(h, i, v) == [h EXCEPT ![i + 1] = v]

\* heapq._siftdown(heap, startpos, pos) carrying newitem = heap[pos]
RECURSIVE SiftDown(_, _, _, _)
SiftDown(h, startpos, pos, newitem) ==
    IF pos > startpos /\ Lt(newitem, At(h, (pos - 1) \div 2))
    THEN SiftDown(Set(h, pos, At(h, (pos - 1) \div 2)), startpos, (pos - 1) \div 2, newitem)
    ELSE Set(h, pos, newitem)

\* the smaller child of pos, the left one unless the right one is not greater
SmallerChild(h, pos) ==
    IF 2 * pos + 2 < Len(h) /\ ~Lt(At(h, 2 * pos + 1), At(h, 2 * pos + 2))
    THEN 2 * pos + 2
    ELSE 2 * pos + 1

\* heapq._siftup(heap, pos): bubble the smaller child up to a leaf, then
\* sift newitem down from there
RECURSIVE SiftUpLoop(_, _, _, _)
SiftUpLoop(h, startpos, pos, newitem) ==
    IF 2 * pos + 1 < Len(h)
    THEN SiftUpLoop(Set(h, pos, At(h, SmallerChild(h, pos))), startpos,
                    SmallerChild(h, pos), newitem)
    ELSE SiftDown(Set(h, pos, newitem), startpos, pos, newitem)

SiftUp(h, pos) == SiftUpLoop(h, pos, pos, At(h, pos))

\* heapq.heappush
HeapPush(h, item) == SiftDown(Append(h, item), 0, Len(h), item)

\* heapq.heappop on a non-empty heap: the item returned, and the heap left
HeapTop(h) == h[1]
HeapPopRest(h) ==
    IF Len(h) = 1 THEN <<>>
    ELSE SiftUp(Set(SubSeq(h, 1, Len(h) - 1), 0, h[Len(h)]), 0)

\* heapq.heapify: _siftup at positions n/2 - 1 down to 0
RECURSIVE HeapifyFrom(_, _)
HeapifyFrom(h, i) == IF i < 0 THEN h ELSE HeapifyFrom(SiftUp(h, i), i - 1)
Heapify(h) == HeapifyFrom(h, (Len(h) \div 2) - 1)

QDone(op, res) == qlast' = [op |-> op, res |-> res, priority |-> -1]

\* a capacity test that lets one item more in
Full_OneMore(q, m) == m > 0 /\ Len(q) > m

\* the capacity test of put, and full()
Full(q, m) == m > 0 /\ Len(q) >= m

\* PriorityQueue.put(item, priority, item_id = given) with datetime.now()
\* reading t (the reading of the put before, or a later one: only the order
\* of the readings matters, so a later one is the next number): at capacity the heap top
\* is popped and its id deleted from the map (KeyError when the map lacks it,
\* the new item then not added); then the new item is pushed and mapped
put(p, given, t) ==
    /\ UNCHANGED nonQueueVars
    /\ nput < MaxPuts
    /\ nput' = nput + 1
    /\ now' = t
    /\ UNCHANGED maxsize
    /\ LET id == IF given = NoId THEN nput + 1 ELSE given
           new == [priority |-> p, timestamp |-> t, item_id |-> id, seq |-> nput + 1]
           full == Full(queue, maxsize)
           removed == IF full THEN HeapTop(queue) ELSE NoItem
           kept == IF full THEN HeapPopRest(queue) ELSE queue
           map == IF full THEN MapDel(item_map, removed.item_id) ELSE item_map
       IN IF full /\ removed.item_id \notin DOMAIN item_map
          THEN /\ queue' = kept
               /\ item_map' = item_map
               /\ QDone("put", "KeyError")
          ELSE /\ queue' = HeapPush(kept, new)
               /\ item_map' = MapPut(map, id, nput + 1)
               /\ QDone("put", "id")

\* PriorityQueue.get on a non-empty queue: pop the heap top and delete its id
\* from the map; the KeyError of a missing id is caught and None returned
get ==
    /\ UNCHANGED nonQueueVars
    /\ Len(queue) > 0
    /\ queue' = HeapPopRest(queue)
    /\ IF HeapTop(queue).item_id \in DOMAIN item_map
       THEN /\ item_map' = MapDel(item_map, HeapTop(queue).item_id)
            /\ qlast' = [op |-> "get", res |-> "item", priority |-> HeapTop(queue).priority]
       ELSE /\ item_map' = item_map
            /\ QDone("get", "None")
    /\ UNCHANGED <<maxsize, now, nput>>

\* PriorityQueue.get(timeout) on a queue that stays empty until the timeout
get_timeout ==
    /\ UNCHANGED nonQueueVars
    /\ Len(queue) = 0
    /\ QDone("get", "None")
    /\ UNCHANGED <<queue, item_map, maxsize, now, nput>>

\* the position of the first heap entry list.remove(item) takes out
RECURSIVE FirstEq(_, _, _)
FirstEq(h, item, i) ==
    IF i > Len(h) THEN 0 ELSE IF ItemEq(h[i], item) THEN i ELSE FirstEq(h, item, i + 1)

Without(h, i) == SubSeq(h, 1, i - 1) \o SubSeq(h, i + 1, Len(h))

\* the heap entry that is the object the map holds for id
ObjectOf(id) == CHOOSE i \in 1..Len(queue) : queue[i].seq = item_map[id]

\* PriorityQueue.remove(item_id)
remove(id) ==
    /\ UNCHANGED nonQueueVars
    /\ UNCHANGED <<maxsize, now, nput>>
    /\ IF id \notin DOMAIN item_map
       THEN /\ QDone("remove", "False")
            /\ UNCHANGED <<queue, item_map>>
       ELSE LET i == FirstEq(queue, queue[ObjectOf(id)], 1) IN
            /\ queue' = Heapify(Without(queue, i))
            /\ item_map' = MapDel(item_map, id)
            /\ QDone("remove", "True")

\* update_priority that changes the rank and leaves the list as it is
update_priority_NoHeapify(id, p) ==
    /\ UNCHANGED nonQueueVars
    /\ UNCHANGED <<item_map, maxsize, now, nput>>
    /\ IF id \notin DOMAIN item_map
       THEN /\ QDone("update_priority", "False")
            /\ UNCHANGED queue
       ELSE /\ queue' = [queue EXCEPT ![ObjectOf(id)].priority = p]
            /\ QDone("update_priority", "True")

\* PriorityQueue.update_priority(item_id, new_priority): the object is changed
\* in place, then the list is heapified
update_priority(id, p) ==
    /\ UNCHANGED nonQueueVars
    /\ UNCHANGED <<item_map, maxsize, now, nput>>
    /\ IF id \notin DOMAIN item_map
       THEN /\ QDone("update_priority", "False")
            /\ UNCHANGED queue
       ELSE /\ queue' = Heapify([queue EXCEPT ![ObjectOf(id)].priority = p])
            /\ QDone("update_priority", "True")

\* the ids a caller can name: those queued, and one that is not
UnknownId == -2
KnownIds == (DOMAIN item_map) \cup {UnknownId}

NextQueue ==
    \/ \E p \in PriorityValues, given \in GivenIds \cup {NoId}, t \in {now, now + 1} :
            put(p, given, t)
    \/ get
    \/ get_timeout
    \/ \E id \in KnownIds : remove(id)
    \/ \E id \in KnownIds, p \in PriorityValues : update_priority(id, p)

\* a queue of any maxsize up to MaxSize (0: unbounded); the engine is not used
InitQueue ==
    /\ EngineInit({[t \in TaskIds |-> [nurls |-> 0, max_items |-> 0]]})
    /\ \E m \in 0..MaxSize : QueueInit(m)
    /\ AdaptiveInit(0, 10)
    /\ req = NoReq
    /\ batch = NoBatch
    /\ SchedInit
    /\ fetch = NoFetch
    /\ parse = NoParse
    /\ DedupInit(1, 0)
    /\ fpr = NoFpr
    /\ RetryInit(0, TRUE, TRUE, {}, EmptyMap, 0)
    /\ BreakerInit(1, 1, "Exception")

SpecQueue == InitQueue /\ [][NextQueue]_vars

\* clients that only put and get
NextPutGet ==
    \/ \E p \in PriorityValues, given \in GivenIds \cup {NoId}, t \in {now, now + 1} :
            put(p, given, t)
    \/ get
    \/ get_timeout

SpecPutGet == InitQueue /\ [][NextPutGet]_vars

\* ============================================= RequestDeduplicator (memory)
\* fingerprints (MD5 digests of normalised requests) a caller can present
Fingerprints == {"f1", "f2", "f3"}

\* a stored entry: timestamp is int(time.time()) of the insertion, in seconds;
\* added is the clock reading itself
Entry(t) == [timestamp |-> t \div 2, added |-> t]


\* the clock readings a call can make: the last one or a later one; without a
\* ttl no reading is ever used and the clock is left where it is
Readings == IF ttl = 0 THEN {clock} ELSE clock..MaxTime

Store == [seen |-> seen_requests, order |-> request_order]

\* is_duplicate's TTL test at reading t: time.time() - stored_time > self.ttl
Expired(e, t) == ttl # 0 /\ t - 2 * e.timestamp > 2 * ttl

\* remove_fingerprint: pop the entry, list.remove its first occurrence
RemoveFingerprint(st, fp) ==
    [seen |-> MapDel(st.seen, fp),
     order |-> IF \E i \in 1..Len(st.order) : st.order[i] = fp
               THEN Without(st.order,
                            CHOOSE i \in 1..Len(st.order) :
                                /\ st.order[i] = fp
                                /\ \A j \in 1..(i - 1) : st.order[j] # fp)
               ELSE st.order]

\* _evict_if_needed
EvictIfNeeded(st) ==
    IF Cardinality(DOMAIN st.seen) >= max_size /\ Len(st.order) > 0
    THEN [seen |-> MapDel(st.seen, Head(st.order)), order |-> Tail(st.order)]
    ELSE st

\* an insertion that is dropped when the store is full
AddFingerprint_DropWhenFull(st, fp, t) ==
    IF Cardinality(DOMAIN st.seen) >= max_size
    THEN st
    ELSE [seen |-> MapPut(st.seen, fp, Entry(t)), order |-> Append(st.order, fp)]

\* the memory branch of add_fingerprint at reading t
AddFingerprint(st, fp, t) ==
    [seen |-> MapPut(EvictIfNeeded(st).seen, fp, Entry(t)),
     order |-> Append(EvictIfNeeded(st).order, fp)]

DDone(op, fp, res) == dlast' = [op |-> op, fp |-> fp, res |-> res]

SetStore(st) ==
    /\ seen_requests' = st.seen
    /\ request_order' = st.order

\* RequestDeduplicator.is_duplicate(fp), reading the clock at t
is_duplicate(fp, t) ==
    /\ UNCHANGED nonDedupVars
    /\ UNCHANGED <<max_size, ttl>>
    /\ clock' = t
    /\ IF fp \in DOMAIN seen_requests
       THEN IF Expired(seen_requests[fp], t)
            THEN /\ SetStore(RemoveFingerprint(Store, fp))
                 /\ DDone("is_duplicate", fp, "False")
            ELSE /\ SetStore(Store)
                 /\ DDone("is_duplicate", fp, "True")
       ELSE /\ SetStore(Store)
            /\ DDone("is_duplicate", fp, "False")

\* RequestDeduplicator.add_fingerprint(fp), reading the clock at t (callers
\* stop inserting once request_order would grow past MaxOrder)
add_fingerprint(fp, t) ==
    /\ UNCHANGED nonDedupVars
    /\ UNCHANGED <<max_size, ttl>>
    /\ Len(AddFingerprint(Store, fp, t).order) <= MaxOrder
    /\ clock' = t
    /\ SetStore(AddFingerprint(Store, fp, t))
    /\ DDone("add_fingerprint", fp, "None")

\* RequestDeduplicator.remove_fingerprint(fp)
remove_fingerprint(fp) ==
    /\ UNCHANGED nonDedupVars
    /\ UNCHANGED <<max_size, ttl, clock>>
    /\ SetStore(RemoveFingerprint(Store, fp))
    /\ DDone("remove_fingerprint", fp, "None")

\* RequestDeduplicator.clear_all
clear_all ==
    /\ UNCHANGED nonDedupVars
    /\ UNCHANGED <<max_size, ttl, clock>>
    /\ SetStore([seen |-> EmptyMap, order |-> <<>>])
    /\ DDone("clear_all", "none", "None")

\* SmartDeduplicator.should_skip_request for a request of fingerprint fp:
\* is_duplicate reads the clock at t1, add_fingerprint at t2
should_skip_request(fp, t1, t2) ==
    /\ UNCHANGED nonDedupVars
    /\ UNCHANGED <<max_size, ttl>>
    /\ IF fp \in DOMAIN seen_requests /\ ~Expired(seen_requests[fp], t1)
       THEN /\ clock' = t1
            /\ SetStore(Store)
            /\ DDone("should_skip_request", fp, "True")
       ELSE /\ SetStore(AddFingerprint(
                   IF fp \in DOMAIN seen_requests
                   THEN RemoveFingerprint(Store, fp) ELSE Store, fp, t2))
            /\ Len(request_order') <= MaxOrder
            /\ clock' = t2
            /\ DDone("should_skip_request", fp, "False")

NextDedup ==
    \/ \E fp \in Fingerprints, t \in Readings : is_duplicate(fp, t)
    \/ \E fp \in Fingerprints, t \in Readings : add_fingerprint(fp, t)
    \/ \E fp \in Fingerprints : remove_fingerprint(fp)
    \/ clear_all
    \/ \E fp \in Fingerprints, t1 \in Readings, t2 \in Readings :
            t1 <= t2 /\ should_skip_request(fp, t1, t2)

\* a deduplicator of any max_size up to MaxStore, with a ttl or none
InitDedup ==
    /\ EngineInit({[t \in TaskIds |-> [nurls |-> 0, max_items |-> 0]]})
    /\ QueueInit(0)
    /\ AdaptiveInit(0, 10)
    /\ req = NoReq
    /\ batch = NoBatch
    /\ SchedInit
    /\ fetch = NoFetch
    /\ parse = NoParse
    /\ \E ms \in 1..MaxStore, tl \in 0..MaxTtl : DedupInit(ms, tl)
    /\ fpr = NoFpr
    /\ RetryInit(0, TRUE, TRUE, {}, EmptyMap, 0)
    /\ BreakerInit(1, 1, "Exception")

SpecDedup == InitDedup /\ [][NextDedup]_vars

\* ===================================================== RequestFingerprinter
\* query parameter names, in the order sorted() puts them, and values
ParamKeys == {"a", "b"}
KeyRank == [k \in ParamKeys |-> IF k = "a" THEN 1 ELSE 2]
ParamValues == {"1", "2"}

\* a query string is its list of <<name, value>> pairs, left to right
Queries == UNION {[1..m -> ParamKeys \X ParamValues] : m \in 0..MaxParams}

Methods == {"get", "GET"}
Upper == [m \in Methods |-> "GET"]
Hosts == {"X.com", "x.com"}
Lower == [h \in Hosts |-> "x.com"]
Paths == {"", "/p"}

\* the pairs of q whose name is k, in their order: parse_qs(query)[k]
ParamsOf(q, k) == SelectSeq(q, LAMBDA p : p[1] = k)

\* the names of q in the order of their first appearance: the key order of
\* the dict parse_qs builds
RECURSIVE FirstKeys(_)
FirstKeys(q) ==
    IF q = <<>> THEN <<>>
    ELSE <<Head(q)[1]>> \o FirstKeys(SelectSeq(Tail(q), LAMBDA p : p[1] # Head(q)[1]))

\* sorted(query_params.items()): the names in ascending order
RECURSIVE SortedKeys(_)
SortedKeys(ks) ==
    IF ks = {} THEN <<>>
    ELSE LET m == CHOOSE k \in ks : \A j \in ks : KeyRank[k] <= KeyRank[j]
         IN <<m>> \o SortedKeys(ks \ {m})

\* urlencode(query_params, doseq=True): name by name, each name's values in
\* the order parse_qs listed them
RECURSIVE Urlencode(_, _)
Urlencode(keys, q) ==
    IF keys = <<>> THEN <<>>
    ELSE ParamsOf(q, Head(keys)) \o Urlencode(Tail(keys), q)

\* the query part of _normalize_url: parse_qs, drop the ignored names, sort
\* the names if asked, urlencode
NormalizeQuery(cfg, q) ==
    LET kept == SelectSeq(q, LAMBDA p : p[1] \notin cfg.ignore_params)
    IN Urlencode(IF cfg.sort_parameters
                 THEN SortedKeys({kept[i][1] : i \in 1..Len(kept)})
                 ELSE FirstKeys(kept),
                 kept)

\* _normalize_url: scheme://netloc.lower() path-or-"/" ?query
NormalizeUrl(cfg, host, path, q) ==
    <<Lower[host], IF path = "" THEN "/" ELSE path, NormalizeQuery(cfg, q)>>

\* generate_fingerprint of a request without body or headers: the MD5 digest
\* of "METHOD:..|URL:..", two digests equal exactly when the strings are
Fingerprint(cfg, method, host, path, q) ==
    <<Upper[method], NormalizeUrl(cfg, host, path, q)>>

FprCfg == [sort_parameters |-> fpr.sort_parameters, ignore_params |-> fpr.ignore_params]

\* generate_fingerprint applied to the two requests
generate_fingerprint ==
    /\ UNCHANGED nonFprVars
    /\ ~fpr.done
    /\ fpr' = [fpr EXCEPT
                 !.d1 = Fingerprint(FprCfg, fpr.method, fpr.host, fpr.path, fpr.q1),
                 !.d2 = Fingerprint(FprCfg, fpr.method, fpr.host, fpr.path, fpr.q2),
                 !.done = TRUE]

\* any fingerprinter settings, and two requests of the same method, host and
\* path with any two query strings
InitFpr ==
    /\ EngineInit({[t \in TaskIds |-> [nurls |-> 0, max_items |-> 0]]})
    /\ QueueInit(0)
    /\ AdaptiveInit(0, 10)
    /\ req = NoReq
    /\ batch = NoBatch
    /\ SchedInit
    /\ fetch = NoFetch
    /\ parse = NoParse
    /\ DedupInit(1, 0)
    /\ RetryInit(0, TRUE, TRUE, {}, EmptyMap, 0)
    /\ BreakerInit(1, 1, "Exception")
    /\ \E srt \in BOOLEAN, ign \in {{}, {"a"}}, m \in Methods, h \in Hosts,
          pa \in Paths, qa \in Queries, qb \in Queries :
          fpr = [NoFpr EXCEPT !.sort_parameters = srt, !.ignore_params = ign,
                              !.method = m, !.host = h, !.path = pa,
                              !.q1 = qa, !.q2 = qb]

SpecFpr == InitFpr /\ [][generate_fingerprint]_vars

\* ============================================================ RetryHandler
\* the exception classes execute_with_retry tells apart, one per branch of
\* _should_retry_on_exception: ClientPayloadError is a ClientError that is
\* none of the three named ones, ValueError is no class the handler knows
PlainTypes == {"NetworkException", "RateLimitException", "ProxyException",
               "ServerException", "ServerDisconnectedError",
               "ClientPayloadError", "ValueError"}
Statuses == {302, 404, 429, 503}

\* the exceptions invocation n of the operation can raise
Exceptions(n) ==
    {[type |-> ty, status |-> 0, n |-> n] : ty \in PlainTypes}
    \cup {[type |-> "ClientResponseError", status |-> st, n |-> n] : st \in Statuses}

\* self.retry_status_codes after __init__
RetryStatusCodes(h) ==
    {408, 429, 500, 502, 503, 504, 520, 521, 522, 523, 524} \cup h.status_codes

\* a predicate that does not know ServerException
ShouldRetryOnException_NoServer(h, e, attempt) ==
    IF attempt >= h.max_retries THEN FALSE
    ELSE IF e.type = "NetworkException" THEN h.retry_on_timeout
    ELSE IF e.type = "RateLimitException" THEN h.retry_on_rate_limit
    ELSE IF e.type = "ProxyException" THEN TRUE
    ELSE IF e.type = "ClientResponseError" THEN
        IF e.status \in RetryStatusCodes(h) THEN TRUE
        ELSE IF 400 <= e.status /\ e.status < 500 /\ e.status \notin {408, 429} THEN FALSE
        ELSE TRUE
    ELSE IF e.type = "ServerDisconnectedError" THEN TRUE
    ELSE IF e.type \in DOMAIN h.exceptions THEN h.exceptions[e.type]
    ELSE FALSE

\* a predicate that retries every HTTP response error
ShouldRetryOnException_No4xxTest(h, e, attempt) ==
    IF attempt >= h.max_retries THEN FALSE
    ELSE IF e.type = "NetworkException" THEN h.retry_on_timeout
    ELSE IF e.type = "RateLimitException" THEN h.retry_on_rate_limit
    ELSE IF e.type = "ProxyException" THEN TRUE
    ELSE IF e.type = "ServerException" THEN TRUE
    ELSE IF e.type = "ClientResponseError" THEN TRUE
    ELSE IF e.type = "ServerDisconnectedError" THEN TRUE
    ELSE IF e.type \in DOMAIN h.exceptions THEN h.exceptions[e.type]
    ELSE FALSE

\* _should_retry_on_exception
ShouldRetryOnException(h, e, attempt) ==
    IF attempt >= h.max_retries THEN FALSE
    ELSE IF e.type = "NetworkException" THEN h.retry_on_timeout
    ELSE IF e.type = "RateLimitException" THEN h.retry_on_rate_limit
    ELSE IF e.type = "ProxyException" THEN TRUE
    ELSE IF e.type = "ServerException" THEN TRUE
    ELSE IF e.type = "ClientResponseError" THEN
        IF e.status \in RetryStatusCodes(h) THEN TRUE
        ELSE IF 400 <= e.status /\ e.status < 500 /\ e.status \notin {408, 429} THEN FALSE
        ELSE TRUE
    ELSE IF e.type = "ServerDisconnectedError" THEN TRUE
    ELSE IF e.type \in DOMAIN h.exceptions THEN h.exceptions[e.type]
    ELSE FALSE

\* an except clause that raises the exception of the attempt before
OnException_RaisesEarlier(h, r, e) ==
    LET r1 == [r EXCEPT !.calls = r.calls + 1, !.last_exception = e]
    IN IF ~ShouldRetryOnException(h, e, r.attempt)
       THEN [r1 EXCEPT !.pc = "raised",
                       !.raised = IF r.last_exception = NoException THEN e
                                  ELSE r.last_exception]
       ELSE IF r.attempt < h.max_retries
       THEN [r1 EXCEPT !.pc = "sleep"]
       ELSE [r1 EXCEPT !.pc = "raised", !.raised = e]

\* the except clause of the loop body, after the operation raised e: raise
\* it, or sleep before the next attempt, or fall out of the loop and raise
\* last_exception
OnException(h, r, e) ==
    LET r1 == [r EXCEPT !.calls = r.calls + 1, !.last_exception = e]
    IN IF ~ShouldRetryOnException(h, e, r.attempt)
       THEN [r1 EXCEPT !.pc = "raised", !.raised = e]
       ELSE IF r.attempt < h.max_retries
       THEN [r1 EXCEPT !.pc = "sleep"]
       ELSE [r1 EXCEPT !.pc = "raised", !.raised = e]

\* the operation is awaited and returns: _should_retry_based_on_result is
\* False, the result is returned
attempt_returns ==
    /\ UNCHANGED <<nonRetryVars, handler>>
    /\ run.pc = "loop"
    /\ run.calls >= run.fail_times
    /\ run' = [run EXCEPT !.calls = run.calls + 1, !.pc = "returned",
                          !.result = "value"]

\* the operation is awaited and raises e
attempt_raises(e) ==
    /\ UNCHANGED <<nonRetryVars, handler>>
    /\ run.pc = "loop"
    /\ run.calls < run.fail_times
    /\ run' = OnException(handler, run, e)

\* asyncio.sleep(delay) is over: the next iteration of the for loop
sleep_done ==
    /\ UNCHANGED <<nonRetryVars, handler>>
    /\ run.pc = "sleep"
    /\ run' = [run EXCEPT !.attempt = run.attempt + 1, !.pc = "loop"]

NextRetry ==
    \/ attempt_returns
    \/ \E e \in Exceptions(run.calls + 1) : attempt_raises(e)
    \/ sleep_done

\* any handler settings, and an operation failing any number of times
InitRetry ==
    /\ EngineInit({[t \in TaskIds |-> [nurls |-> 0, max_items |-> 0]]})
    /\ QueueInit(0)
    /\ AdaptiveInit(0, 10)
    /\ req = NoReq
    /\ batch = NoBatch
    /\ SchedInit
    /\ fetch = NoFetch
    /\ parse = NoParse
    /\ DedupInit(1, 0)
    /\ fpr = NoFpr
    /\ BreakerInit(1, 1, "Exception")
    /\ \E mr \in 0..MaxRetries, rot \in BOOLEAN, rorl \in BOOLEAN,
          codes \in {{}, {404}},
          excs \in {EmptyMap} \cup {[x \in {"ValueError"} |-> b] : b \in BOOLEAN},
          ft \in 0..(MaxRetries + 1) :
          RetryInit(mr, rot, rorl, codes, excs, ft)

SpecRetry == InitRetry /\ [][NextRetry]_vars

\* ========================================================== CircuitBreaker
\* timedelta.seconds is the seconds within the day, the days are a field of
\* their own
SecondsPerDay == 86400
MaxNow == SecondsPerDay + MaxSeconds

\* the exceptions the wrapped function raises, and whether the except clause
\* of call catches them
Raised == {"ValueError", "KeyError"}
Expected(b, ty) == b.expected_exception = "Exception" \/ b.expected_exception = ty

\* the seconds since the last failure, all of them
Elapsed(b, t) == IF b.last_failure_time = NoTime THEN NoTime ELSE t - b.last_failure_time

\* a test that lets a call through as soon as there was a failure
ShouldAttemptReset_Always(b, t) ==
    b.last_failure_time # NoTime

\* _should_attempt_reset
ShouldAttemptReset(b, t) ==
    /\ b.last_failure_time # NoTime
    /\ (t - b.last_failure_time) % SecondsPerDay >= b.recovery_timeout

\* a success that closes the breaker and keeps the count
OnSuccess_KeepsCount(b) == [b EXCEPT !.state = "closed"]

\* _on_success
OnSuccess(b) == [b EXCEPT !.failure_count = 0, !.state = "closed"]

\* _on_failure
OnFailure(b, t) ==
    LET b1 == [b EXCEPT !.failure_count = b.failure_count + 1, !.last_failure_time = t]
    IN IF b1.failure_count >= b1.failure_threshold
       THEN [b1 EXCEPT !.state = "open"]
       ELSE b1

\* the clock moves on, by a second or by a day, over the first seconds of
\* two days
tick(d) ==
    /\ UNCHANGED <<nonBreakerVars, breaker, bcall>>
    /\ bnow + d <= MaxNow
    /\ (bnow + d) % SecondsPerDay <= MaxSeconds
    /\ bnow' = bnow + d

\* call, open and not due for a trial: raises without calling func
call_rejected ==
    /\ UNCHANGED <<nonBreakerVars, breaker, bnow>>
    /\ bcall.pc = "idle"
    /\ breaker.state = "open"
    /\ ~ShouldAttemptReset(breaker, bnow)
    /\ bcall' = [bcall EXCEPT !.op = "rejected", !.elapsed = Elapsed(breaker, bnow)]

\* call, up to the call of func: an open breaker due for a trial becomes
\* half-open
call_enter ==
    /\ UNCHANGED <<nonBreakerVars, bnow>>
    /\ bcall.pc = "idle"
    /\ breaker.state = "open" => ShouldAttemptReset(breaker, bnow)
    /\ breaker' = IF breaker.state = "open"
                  THEN [breaker EXCEPT !.state = "half-open"]
                  ELSE breaker
    /\ bcall' = [bcall EXCEPT !.pc = "running",
                              !.op = IF breaker.state = "open" THEN "trial" ELSE "entered",
                              !.elapsed = Elapsed(breaker, bnow)]

\* func returns
func_returns ==
    /\ UNCHANGED <<nonBreakerVars, bnow>>
    /\ bcall.pc = "running"
    /\ breaker' = OnSuccess(breaker)
    /\ bcall' = [bcall EXCEPT !.pc = "idle", !.streak = 0,
                              !.op = IF bcall.op = "trial" THEN "trial_returned" ELSE "returned"]

\* func raises: counted if the except clause catches it, raised to the
\* caller either way
func_raises(ty) ==
    /\ UNCHANGED <<nonBreakerVars, bnow>>
    /\ bcall.pc = "running"
    /\ breaker' = IF Expected(breaker, ty) THEN OnFailure(breaker, bnow) ELSE breaker
    /\ bcall' = [bcall EXCEPT !.pc = "idle",
                              !.streak = IF Expected(breaker, ty) THEN bcall.streak + 1 ELSE 0,
                              !.op = IF bcall.op = "trial" THEN "trial_raised" ELSE "raised"]

NextBreaker ==
    \/ \E d \in {1, SecondsPerDay} : tick(d)
    \/ call_rejected
    \/ call_enter
    \/ func_returns
    \/ \E ty \in Raised : func_raises(ty)

\* any positive threshold and timeout, catching everything or one class
InitBreaker ==
    /\ EngineInit({[t \in TaskIds |-> [nurls |-> 0, max_items |-> 0]]})
    /\ QueueInit(0)
    /\ AdaptiveInit(0, 10)
    /\ req = NoReq
    /\ batch = NoBatch
    /\ SchedInit
    /\ fetch = NoFetch
    /\ parse = NoParse
    /\ DedupInit(1, 0)
    /\ fpr = NoFpr
    /\ RetryInit(0, TRUE, TRUE, {}, EmptyMap, 0)
    /\ \E ft \in 1..MaxThreshold, rt \in 1..MaxRecovery, ee \in {"Exception", "ValueError"} :
          BreakerInit(ft, rt, ee)

SpecBreaker == InitBreaker /\ [][NextBreaker]_vars

\* ==================================================== AdaptiveRetryHandler
\* _adapt_strategy leaves everything alone below this many counted calls
MinRequests == 10

\* _adapt_strategy: success_count / request_count < 0.8, in integers
AdaptStrategy(h) ==
    IF h.request_count < MinRequests THEN h
    ELSE IF 10 * h.success_count < 8 * h.request_count
    THEN [h EXCEPT !.adaptive_max_retries = Min(h.max_retries + 2, 10),
                   !.adaptive_base_delay = Min((h.base_delay * 15) \div 10, 100)]
    ELSE [h EXCEPT !.adaptive_max_retries = Max(h.max_retries - 1, 1),
                   !.adaptive_base_delay = Max((h.base_delay * 8) \div 10, 5)]

\* execute_with_retry up to the first await of the inherited loop:
\* request_count += 1, and range(self.max_retries + 1) is evaluated
adaptive_begin(c) ==
    /\ UNCHANGED <<nonAdaptiveVars, alast>>
    /\ acall[c].pc = "idle"
    /\ adaptive.request_count < MaxCalls
    /\ adaptive' = [adaptive EXCEPT !.request_count = adaptive.request_count + 1]
    /\ acall' = [acall EXCEPT ![c] =
                   [pc |-> "running", limit |-> adaptive.max_retries + 1,
                    counted |-> adaptive.request_count,
                    adaptive_max_retries |-> adaptive.adaptive_max_retries,
                    adaptive_base_delay |-> adaptive.adaptive_base_delay]]

\* the inherited loop is over, on an operation that fails its first ft
\* invocations with retryable errors: it returned after ft + 1 attempts or
\* raised after the last one, sleeping _calculate_delay(attempt), which
\* starts from self.base_delay; then the counter and _adapt_strategy
adaptive_end(c, ft) ==
    /\ UNCHANGED nonAdaptiveVars
    /\ acall[c].pc = "running"
    /\ LET ok == ft < acall[c].limit
           h1 == IF ok
                 THEN [adaptive EXCEPT !.success_count = adaptive.success_count + 1]
                 ELSE [adaptive EXCEPT !.failure_count = adaptive.failure_count + 1]
       IN /\ adaptive' = AdaptStrategy(h1)
          /\ alast' = [op |-> IF ok THEN "returned" ELSE "raised",
                       attempts |-> IF ok THEN ft + 1 ELSE acall[c].limit,
                       base_delay |-> adaptive.base_delay,
                       counted |-> acall[c].counted,
                       adaptive_max_retries |-> acall[c].adaptive_max_retries,
                       adaptive_base_delay |-> acall[c].adaptive_base_delay]
    /\ acall' = [acall EXCEPT ![c] = NoACall]

NextAdaptive ==
    \/ \E c \in Callers : adaptive_begin(c)
    \/ \E c \in Callers, ft \in {0, MaxRetries + 2} : adaptive_end(c, ft)

\* any max_retries, a base delay of 0.4 s or 1 s
InitAdaptive ==
    /\ EngineInit({[t \in TaskIds |-> [nurls |-> 0, max_items |-> 0]]})
    /\ QueueInit(0)
    /\ req = NoReq
    /\ batch = NoBatch
    /\ SchedInit
    /\ fetch = NoFetch
    /\ parse = NoParse
    /\ DedupInit(1, 0)
    /\ fpr = NoFpr
    /\ RetryInit(0, TRUE, TRUE, {}, EmptyMap, 0)
    /\ BreakerInit(1, 1, "Exception")
    /\ \E mr \in 0..MaxRetries, bd \in {4, 10} : AdaptiveInit(mr, bd)

SpecAdaptive == InitAdaptive /\ [][NextAdaptive]_vars

\* ======================================================= EnhancedDownloader
\* what session.request and response.text() can do: answer with a status,
\* or raise asyncio.TimeoutError, ClientResponseError (with a status),
\* ClientOSError, ServerDisconnectedError
ResponseStatuses == {200, 401, 403, 404, 407, 429, 500, 501, 502, 503, 504}
Met ==
    {[kind |-> "response", type |-> "none", status |-> st] : st \in ResponseStatuses}
    \cup {[kind |-> "raise", type |-> "ClientResponseError", status |-> st] :
             st \in ResponseStatuses}
    \cup {[kind |-> "raise", type |-> ty, status |-> 0] :
             ty \in {"TimeoutError", "ClientOSError", "ServerDisconnectedError"}}

Raise(ty) == [kind |-> "raise", type |-> ty, status |-> 0]
Return(st) == [kind |-> "return", type |-> "none", status |-> st]

\* the body of the try statement, lines 187-233: what it returns or raises
\* inside the try; a Retry-After that is not a number makes int() raise
TryBody(r) ==
    IF r.met.kind = "raise" THEN r.met
    ELSE IF r.met.status = 429 THEN
        IF r.retry_after = "date" THEN Raise("ValueError") ELSE Raise("RateLimitException")
    ELSE IF r.met.status \in {500, 502, 503, 504} THEN Raise("ServerException")
    ELSE IF r.met.status \in {407, 502, 503} /\ r.proxy THEN Raise("ProxyException")
    ELSE IF r.met.status \in {401, 403} /\ r.cookies THEN Raise("CookieException")
    ELSE Return(r.met.status)

\* the except clauses, lines 235-266, applied to what the try body raised
ExceptClauses(r, x) ==
    IF x.kind = "return" THEN x
    ELSE IF x.type = "TimeoutError" THEN Raise("TimeoutException")
    ELSE IF x.type = "ClientResponseError" THEN
        IF x.status \in RetryStatusCodes(r) THEN
            IF x.status = 429 THEN Raise("RateLimitException")
            ELSE IF x.status \in {500, 502, 503, 504} THEN Raise("ServerException")
            ELSE Raise("NetworkException")
        ELSE Return(x.status)
    ELSE IF x.type = "ClientOSError" THEN Raise("NetworkException")
    ELSE Raise("NetworkException")

\* _single_request
SingleRequest(r) == ExceptClauses(r, TryBody(r))

single_request ==
    /\ UNCHANGED nonRequestVars
    /\ req.out = NoOutcome
    /\ req' = [req EXCEPT !.out = SingleRequest(req)]

\* any answer, with or without proxy, cookies and Retry-After header
InitRequest ==
    /\ EngineInit({[t \in TaskIds |-> [nurls |-> 0, max_items |-> 0]]})
    /\ QueueInit(0)
    /\ batch = NoBatch
    /\ SchedInit
    /\ fetch = NoFetch
    /\ parse = NoParse
    /\ DedupInit(1, 0)
    /\ fpr = NoFpr
    /\ RetryInit(0, TRUE, TRUE, {}, EmptyMap, 0)
    /\ BreakerInit(1, 1, "Exception")
    /\ AdaptiveInit(0, 10)
    /\ \E mt \in Met, px \in BOOLEAN, ck \in BOOLEAN, ra \in {"none", "seconds", "date"} :
          req = [NoReq EXCEPT !.met = mt, !.proxy = px, !.cookies = ck, !.retry_after = ra]

SpecRequest == InitRequest /\ [][single_request]_vars

\* ========================================================== download_batch
\* what the download of URL i leaves in its coroutine: the tuple download
\* returned or the exception it raised; the enhanced downloader's
\* _download_single turns the exception into the tuple (0, "", 0.0)
Entry_(b, i, ok) ==
    IF ok THEN [of |-> i, kind |-> "tuple"]
    ELSE IF b.enhanced THEN [of |-> i, kind |-> "zero tuple"]
    ELSE [of |-> i, kind |-> "exception"]

\* a gather that raises the first exception of a coroutine
Gather_RaisesFirst(b) ==
    IF \E i \in DOMAIN b.pc : b.out[i].kind = "exception"
    THEN [b EXCEPT !.state = "raised"]
    ELSE IF \A i \in DOMAIN b.pc : b.pc[i] = "done"
    THEN [b EXCEPT !.state = "returned", !.result = b.out]
    ELSE b

\* asyncio.gather(*tasks, return_exceptions=True): when every coroutine is
\* over, the list of what they returned or raised, in the order of tasks
Gather(b) ==
    IF \A i \in DOMAIN b.pc : b.pc[i] = "done"
    THEN [b EXCEPT !.state = "returned", !.result = b.out]
    ELSE b

\* a semaphore that lets every coroutine in
CanAcquire_Always(b) == TRUE

\* Semaphore.acquire returns without waiting while the value is positive
CanAcquire(b) == b.value > 0

\* coroutine i enters "async with semaphore" and starts its download
batch_acquire(i) ==
    /\ UNCHANGED nonBatchVars
    /\ batch.state = "gathering"
    /\ batch.pc[i] = "created"
    /\ CanAcquire(batch)
    /\ batch' = [batch EXCEPT !.value = batch.value - 1, !.pc[i] = "downloading"]

\* the download of coroutine i is over: the semaphore is released, the
\* coroutine is done, and gather returns if it was the last one
batch_download_done(i, ok) ==
    /\ UNCHANGED nonBatchVars
    /\ batch.state = "gathering"
    /\ batch.pc[i] = "downloading"
    /\ batch' = Gather([batch EXCEPT !.value = batch.value + 1, !.pc[i] = "done",
                                     !.out[i] = Entry_(batch, i, ok)])

NextBatch ==
    \/ \E i \in DOMAIN batch.pc : batch_acquire(i)
    \/ \E i \in DOMAIN batch.pc, ok \in BOOLEAN : batch_download_done(i, ok)

\* either downloader, any number of URLs, any positive concurrent_limit
InitBatch ==
    /\ EngineInit({[t \in TaskIds |-> [nurls |-> 0, max_items |-> 0]]})
    /\ QueueInit(0)
    /\ SchedInit
    /\ fetch = NoFetch
    /\ parse = NoParse
    /\ DedupInit(1, 0)
    /\ fpr = NoFpr
    /\ RetryInit(0, TRUE, TRUE, {}, EmptyMap, 0)
    /\ BreakerInit(1, 1, "Exception")
    /\ AdaptiveInit(0, 10)
    /\ req = NoReq
    /\ \E n \in 1..MaxBatch, lim \in 1..MaxLimit, enh \in BOOLEAN :
          batch = BatchOf(n, lim, enh)

SpecBatch == InitBatch /\ [][NextBatch]_vars

\* =========================================================== TaskScheduler
\* self.check_interval
CheckInterval == 60
\* the asyncio.sleep(1) that stands for the work of _run_task
RunSeconds == 1
MaxSchedNow == CheckInterval + RunSeconds

\* a due test that knows no cron task
ShouldRunTask_CronNeverDue(id, o, current_time) ==
    IF o.status # "pending" THEN FALSE
    ELSE IF id = "one_time" THEN o.next_run # NoTime /\ current_time >= o.next_run
    ELSE IF id = "interval" THEN
        IF o.last_run = NoTime THEN TRUE
        ELSE current_time >= o.last_run + o.interval_seconds
    ELSE FALSE

\* _should_run_task
ShouldRunTask(id, o, current_time) ==
    IF o.status # "pending" THEN FALSE
    ELSE IF id = "one_time" THEN o.next_run # NoTime /\ current_time >= o.next_run
    ELSE IF id = "interval" THEN
        IF o.last_run = NoTime THEN TRUE
        ELSE current_time >= o.last_run + o.interval_seconds
    ELSE IF id = "cron" THEN
        IF o.last_run = NoTime THEN TRUE ELSE FALSE
    ELSE FALSE

\* an end of _run_task that removes nothing
AfterRun_KeepsAll(id, ids) == ids

\* the end of _run_task: a one-time task is removed from the dict
AfterRun(id, ids) ==
    IF id = "one_time" THEN SelectSeq(ids, LAMBDA x : x # id) ELSE ids

\* the first position from i on in the snapshot whose task is due, 0 if none
FirstDue(lp, i, so) ==
    LET due == {j \in i..Len(lp.snapshot) :
                  ShouldRunTask(lp.snapshot[j], so[lp.snapshot[j]], lp.current_time)}
    IN IF due = {} THEN 0 ELSE CHOOSE j \in due : \A k \in due : j <= k

\* the for loop of _check_and_run_tasks from position i, up to its next
\* suspension: in the sleep of _run_task for the first due task, or past
\* the last task in the sleep of _schedule_loop (a sleep that ends after
\* the last clock reading is recorded as ending just after it). so and ids
\* are the objects and the dict as the code before left them.
Advance(l, lp, i, so, ids) ==
    LET j == FirstDue(lp, i, so)
    IN IF j = 0
       THEN /\ sched' = [sched EXCEPT !.loops[l] =
                           [lp EXCEPT !.pc = "sleeping", !.idx = 0,
                                       !.wake = Min(snow + CheckInterval, MaxSchedNow + 1)]]
            /\ sobj' = so
            /\ scheduled_tasks' = ids
       ELSE /\ sched' = [sched EXCEPT !.loops[l] = [lp EXCEPT !.pc = "in_run", !.idx = j]]
            /\ sobj' = [so EXCEPT ![lp.snapshot[j]] =
                          [@ EXCEPT !.status = "running", !.last_run = snow,
                                    !.fires = @ + 1, !.fired_pass = lp.current_time]]
            /\ scheduled_tasks' = ids

\* the clock moves on, by the run time of a task or by a check interval
sched_tick(d) ==
    /\ UNCHANGED <<nonSchedVars, scheduled_tasks, sobj, sched>>
    /\ snow + d <= MaxSchedNow
    /\ (snow + d) % CheckInterval <= RunSeconds
    /\ snow' = snow + d

\* start: a new _schedule_loop task, unless running
sched_start ==
    /\ UNCHANGED <<nonSchedVars, scheduled_tasks, sobj, snow>>
    /\ IF sched.running THEN UNCHANGED sched
       ELSE \E l \in 1..MaxLoops :
              /\ sched.loops[l].pc \in {"none", "exited"}
              /\ \A k \in 1..(l - 1) : sched.loops[k].pc \notin {"none", "exited"}
              /\ sched' = [sched EXCEPT !.running = TRUE, !.loops[l].pc = "top"]

\* stop
sched_stop ==
    /\ UNCHANGED <<nonSchedVars, scheduled_tasks, sobj, snow>>
    /\ sched.running
    /\ sched' = [sched EXCEPT !.running = FALSE]

\* add_interval_task, add_one_time_task, add_cron_task
add_task(id, iv, rd) ==
    /\ UNCHANGED <<nonSchedVars, sched, snow>>
    /\ sobj[id].status = "absent"
    /\ sobj' = [sobj EXCEPT ![id] =
                  [NoSTask EXCEPT !.status = "pending",
                                  !.interval_seconds = IF id = "interval" THEN iv ELSE 0,
                                  !.next_run = IF id = "one_time" THEN rd ELSE NoTime]]
    /\ scheduled_tasks' = Append(scheduled_tasks, id)

\* remove_task, by a caller
remove_task(id) ==
    /\ UNCHANGED <<nonSchedVars, sobj, sched, snow>>
    /\ \E i \in 1..Len(scheduled_tasks) : scheduled_tasks[i] = id
    /\ scheduled_tasks' = SelectSeq(scheduled_tasks, LAMBDA x : x # id)

\* a loop at "while self.running", the first time or back from its sleep:
\* it ends, or starts a pass with the clock reading and a copy of the dict
loop_pass(l) ==
    /\ UNCHANGED <<nonSchedVars, snow>>
    /\ \/ sched.loops[l].pc = "top"
       \/ sched.loops[l].pc = "sleeping" /\ snow >= sched.loops[l].wake
    /\ IF ~sched.running
       THEN /\ sched' = [sched EXCEPT !.loops[l] = [NoLoop EXCEPT !.pc = "exited"]]
            /\ UNCHANGED <<scheduled_tasks, sobj>>
       ELSE Advance(l, [sched.loops[l] EXCEPT !.current_time = snow,
                                              !.snapshot = scheduled_tasks],
                    1, sobj, scheduled_tasks)

\* the sleep(1) of _run_task is over: the task is completed, an interval
\* task gets its next_run, a one-time task is removed; then the pass goes on
run_done(l) ==
    /\ UNCHANGED <<nonSchedVars, snow>>
    /\ sched.loops[l].pc = "in_run"
    /\ LET lp == sched.loops[l]
           id == lp.snapshot[lp.idx]
       IN /\ snow >= sobj[id].last_run + RunSeconds
          /\ Advance(l, lp, lp.idx + 1,
                     [sobj EXCEPT ![id] =
                        [@ EXCEPT !.status = "completed",
                                  !.next_run = IF id = "interval"
                                               THEN snow + sobj[id].interval_seconds
                                               ELSE @]],
                     AfterRun(id, scheduled_tasks))

NextSched ==
    \/ \E d \in {RunSeconds, CheckInterval} : sched_tick(d)
    \/ sched_start
    \/ sched_stop
    \/ \E id \in SchedIds, iv \in {RunSeconds}, rd \in {0, CheckInterval} :
          add_task(id, iv, rd)
    \/ \E id \in SchedIds : remove_task(id)
    \/ \E l \in 1..MaxLoops : loop_pass(l)
    \/ \E l \in 1..MaxLoops : run_done(l)

InitSched ==
    /\ EngineInit({[t \in TaskIds |-> [nurls |-> 0, max_items |-> 0]]})
    /\ QueueInit(0)
    /\ fetch = NoFetch
    /\ parse = NoParse
    /\ DedupInit(1, 0)
    /\ fpr = NoFpr
    /\ RetryInit(0, TRUE, TRUE, {}, EmptyMap, 0)
    /\ BreakerInit(1, 1, "Exception")
    /\ AdaptiveInit(0, 10)
    /\ req = NoReq
    /\ batch = NoBatch
    /\ SchedInit

SpecSched == InitSched /\ [][NextSched]_vars


\* ============================ Downloader.download in the engine's URL loop
\* what session.request can meet: a response, a timeout, or a client error
FetchStatuses == {200, 404, 503}
TransportErrors == {"TimeoutError", "ClientOSError", "ServerDisconnectedError"}
FetchMet ==
    {[kind |-> "response", type |-> "none", status |-> st] : st \in FetchStatuses}
    \cup {[kind |-> "raise", type |-> ty, status |-> 0] : ty \in TransportErrors}

\* the client errors the retry handler retries
RetryableTransport == {"ServerDisconnectedError", "ClientOSError"}

\* Downloader._make_request: the response's status is returned, a timeout
\* or a client error is logged and raised again
MakeRequest(x) ==
    IF x.kind = "response" THEN Return(x.status) ELSE Raise(x.type)

\* Downloader.download: one _make_request, whose outcome is its own
Download(x) == MakeRequest(x)

\* the engine calls downloader.download(url) for the next URL
fetch_download ==
    /\ UNCHANGED nonFetchVars
    /\ fetch.pc = "loop"
    /\ Len(fetch.log) < MaxUrls
    /\ fetch' = [fetch EXCEPT !.pc = "request", !.attempts = 0]

\* the request meets x; download ends, and the engine's try statement
\* handles a status or catches the exception
fetch_request(x) ==
    /\ UNCHANGED nonFetchVars
    /\ fetch.pc = "request"
    /\ LET out == Download(x)
       IN fetch' = [fetch EXCEPT
                      !.pc = "loop",
                      !.attempts = fetch.attempts + 1,
                      !.log = Append(fetch.log,
                                 [met |-> x, attempts |-> fetch.attempts + 1,
                                  out |-> out,
                                  caught |-> IF out.kind = "raise" THEN out.type
                                             ELSE "none"])]

NextFetch ==
    \/ fetch_download
    \/ \E x \in FetchMet : fetch_request(x)

InitFetch ==
    /\ EngineInit({[t \in TaskIds |-> [nurls |-> 0, max_items |-> 0]]})
    /\ QueueInit(0)
    /\ \E rt \in 0..MaxRetries : fetch = FetchOf(rt)
    /\ parse = NoParse
    /\ DedupInit(1, 0)
    /\ fpr = NoFpr
    /\ RetryInit(0, TRUE, TRUE, {}, EmptyMap, 0)
    /\ BreakerInit(1, 1, "Exception")
    /\ AdaptiveInit(0, 10)
    /\ req = NoReq
    /\ batch = NoBatch
    /\ SchedInit

SpecFetch == InitFetch /\ [][NextFetch]_vars


\* =================================================================== Parser
\* the fields of the rules, and the texts the page holds for a selector
Fields == {"title", "price", "tags"}
Texts == {" a  b ", "<i>a</i>"}
SelectorTypes == {"css", "XPath", "json"}
LowerType == [t \in SelectorTypes |->
                 IF t = "css" THEN "css" ELSE IF t = "XPath" THEN "xpath" ELSE "json"]

\* a rule on the page: the selection raises (a selector that is not valid),
\* or finds these texts, in document order
Rule(f, raises, found) == [field |-> f, raises |-> raises, found |-> found]
Founds == {<<>>} \cup {<<v>> : v \in Texts} \cup {<<v, w>> : v, w \in Texts}
Rules1 == {Rule(f, TRUE, <<>>) : f \in Fields}
          \cup {Rule(f, FALSE, fd) : f \in Fields, fd \in Founds}
\* rules.items(): a dict, so no field twice
RECURSIVE RuleSeqsOf(_)
RuleSeqsOf(n) ==
    IF n = 0 THEN {<<>>}
    ELSE LET shorter == RuleSeqsOf(n - 1)
         IN shorter \cup
            UNION {{Append(q, r) : r \in {x \in Rules1 :
                                            \A i \in 1..Len(q) : q[i].field # x.field}} :
                   q \in shorter}
RuleSeqs == RuleSeqsOf(MaxRules)

\* get_text(strip=True), str(elem).strip()
Strip(v) == IF v = " a  b " THEN "a  b" ELSE v
\* re.sub(r'\s+', ' ', v).strip()
CleanWhitespace(v) == IF v \in {" a  b ", "a  b"} THEN "a b" ELSE v
\* _clean_html_tags
CleanHtmlTags(v) == IF v = "<i>a</i>" THEN "a" ELSE v

\* the values of a record: None, one text, a list of texts
Null == [kind |-> "null", v |-> <<>>]
One(v) == [kind |-> "one", v |-> <<v>>]
Many(vs) == [kind |-> "many", v |-> vs]
MapSeq(vs, F(_)) == [i \in 1..Len(vs) |-> F(vs[i])]
\* a value is true unless it is None or an empty text
Truthy(x) == x.kind # "null" /\ ~(x.kind = "one" /\ x.v[1] = "")

\* the two cleaning steps of a field
Clean(c, x) ==
    LET a == IF c.clean_whitespace /\ Truthy(x)
             THEN [x EXCEPT !.v = MapSeq(x.v, CleanWhitespace)] ELSE x
    IN IF c.clean_html /\ Truthy(a)
       THEN [a EXCEPT !.v = MapSeq(a.v, CleanHtmlTags)] ELSE a

\* the selection of a field: the list if more than one is found, the
\* value if one, None if none
Select(r) ==
    LET values == MapSeq(r.found, Strip)
    IN IF Len(values) > 1 THEN Many(values)
       ELSE IF Len(values) = 1 THEN One(values[1])
       ELSE Null

\* a field whose exception is not caught at the field
ParseField_Propagates(c, r) ==
    IF r.raises THEN [raised |-> TRUE, value |-> Null]
    ELSE [raised |-> FALSE, value |-> Clean(c, Select(r))]

\* the try statement of one field: the cleaned selection, None if it raised
ParseField(c, r) ==
    IF r.raises THEN [raised |-> FALSE, value |-> Null]
    ELSE [raised |-> FALSE, value |-> Clean(c, Select(r))]

\* the for loop over rules.items() from rule i on with the dict data: the
\* dict at the end, or a raise that leaves the loop
RECURSIVE ParseFrom(_, _, _)
ParseFrom(c, i, data) ==
    IF i > Len(c.rules) THEN [raised |-> FALSE, data |-> data]
    ELSE LET p == ParseField(c, c.rules[i])
         IN IF p.raised THEN [raised |-> TRUE, data |-> data]
            ELSE ParseFrom(c, i + 1, MapPut(data, c.rules[i].field, p.value))

\* _parse_by_css, _parse_by_xpath: no record without rules, one record
\* otherwise; the outer except returns no record
ParseBy(c) ==
    IF c.rules = <<>> THEN <<>>
    ELSE LET p == ParseFrom(c, 1, MapPut(EmptyMap, "url", One("u")))
         IN IF p.raised THEN <<>> ELSE <<p.data>>

\* parse_html
parse_html ==
    /\ UNCHANGED nonParseVars
    /\ parse.pc = "ready"
    /\ IF LowerType[parse.config.selector_type] \in {"css", "xpath"}
       THEN parse' = [parse EXCEPT !.pc = "parsed", !.result = ParseBy(parse.config)]
       ELSE parse' = [parse EXCEPT !.pc = "ValueError"]

NextParse == parse_html

InitParse ==
    /\ EngineInit({[t \in TaskIds |-> [nurls |-> 0, max_items |-> 0]]})
    /\ QueueInit(0)
    /\ fetch = NoFetch
    /\ \E st \in SelectorTypes, rs \in RuleSeqs, cw \in BOOLEAN, ch \in BOOLEAN :
          parse = [NoParse EXCEPT !.pc = "ready",
                                  !.config = [selector_type |-> st, rules |-> rs,
                                              clean_whitespace |-> cw,
                                              clean_html |-> ch]]
    /\ DedupInit(1, 0)
    /\ fpr = NoFpr
    /\ RetryInit(0, TRUE, TRUE, {}, EmptyMap, 0)
    /\ BreakerInit(1, 1, "Exception")
    /\ AdaptiveInit(0, 10)
    /\ req = NoReq
    /\ batch = NoBatch
    /\ SchedInit

SpecParse == InitParse /\ [][NextParse]_vars

\* ------------------------------------------------------------------ claims
Registered(id) == id \in DOMAIN active_tasks
UnitIds == 1..Len(units)
NUrls(u) == config[units[u].id].nurls
MaxItemsOf(u) == config[units[u].id].max_items

\* C1: start_task(id) while id is in the active-task registry raises the
\* conflict error, creates no execution unit and leaves the registry as it was.
C1_ConflictLeavesRegistry ==
    [][\A c \in Callers, id \in TaskIds :
        (start_task(c, id) /\ Registered(id)) =>
            /\ last'.res = "TaskConflictException"
            /\ units' = units
            /\ active_tasks' = active_tasks]_vars

\* a start_task was just rejected as a conflict while the id's unit is registered
C1_Witness ==
    /\ last.op = "start"
    /\ last.res = "TaskConflictException"
    /\ Registered(last.id)
    /\ units[active_tasks[last.id]].pc = "download"

\* C2: a stop_task issued while the unit was in its URL loop returns True (it
\* does not raise), and the stop_task of the same id made right after it
\* returns False.
C2_StopTrueThenFalse ==
    [][\A c \in Callers :
        /\ (stop_task_resume(c) /\ call[c].at = "download") => last'.res = "True"
        /\ \A id \in TaskIds :
             (stop_task(c, id) /\ last = [op |-> "stop", id |-> id, res |-> "True"])
                 => last' = [op |-> "stop", id |-> id, res |-> "False"]]_vars

\* C3: the registration of a unit is removed exactly once: never more than one
\* del is executed for it, and once the unit is done and no stop_task is still
\* waiting for it, one del has been executed and the registry no longer maps
\* the id to it.
AwaitedBy(u) == {c \in Callers : call[c].pc = "await_unit" /\ call[c].unit = u}

C3_RemovedExactlyOnce ==
    \A u \in UnitIds :
        /\ units[u].dels <= 1
        /\ (UnitDone(u) /\ AwaitedBy(u) = {}) =>
               /\ units[u].dels = 1
               /\ ~(Registered(units[u].id) /\ active_tasks[units[u].id] = u)

\* C4: a URL that yields no record (download exception, non-200 status, parse
\* failure) does not end the loop: when URLs remain, the task is still
\* registered and max_items is not reached, the unit goes on to the download of
\* the next URL, and the result list keeps what it had.
C4_FailureDoesNotAbort ==
    [][\A u \in UnitIds :
        LET id == units[u].id IN
        (/\ units[u].pc = "download"
         /\ units'[u] # units[u]
         /\ ~units'[u].must_cancel
         /\ results'[id] = results[id]
         /\ units[u].idx < NUrls(u)
         /\ Registered(id)
         /\ MaxItemsOf(u) = 0 \/ Len(results[id]) < MaxItemsOf(u))
        => /\ units'[u].pc = "download"
           /\ units'[u].idx = units[u].idx + 1]_vars

\* a task of 3 URLs has completed with the records of URLs 1 and 3 only
C4_Witness ==
    \E u \in UnitIds :
        /\ units[u].pc = "completed"
        /\ NUrls(u) = 3
        /\ MaxItemsOf(u) = 0
        /\ Len(units) = 1
        /\ results[units[u].id] = <<1, 3>>

\* C5: with max_items configured, a unit begins the download of a URL only
\* while the task's result count is below max_items.
C5_StopsAtMaxItems ==
    [][\A u \in UnitIds :
        (/\ MaxItemsOf(u) # 0
         /\ units'[u].pc = "download"
         /\ units[u].pc # "download" \/ units'[u].idx # units[u].idx)
        => Len(results'[units[u].id]) < MaxItemsOf(u)]_vars

\* a task of 3 URLs with max_items = 2 has completed with exactly the records
\* of URLs 1 and 2
C5_Witness ==
    \E u \in UnitIds :
        /\ units[u].pc = "completed"
        /\ NUrls(u) = 3
        /\ MaxItemsOf(u) = 2
        /\ Len(units) = 1
        /\ results[units[u].id] = <<1, 2>>

\* C6: start_task with an empty URL list raises the validation error of the
\* error taxonomy (ValidationException), creates no unit and registers nothing.
C6_EmptyUrlsIsValidationError ==
    [][\A c \in Callers, id \in TaskIds :
        (start_task(c, id) /\ ~Registered(id) /\ config[id].nurls = 0) =>
            /\ last'.res = "ValidationException"
            /\ units' = units
            /\ active_tasks' = active_tasks]_vars

\* C7: a task whose status is RUNNING and whose unit has finished its URL loop
\* eventually gets the status SUCCESS.
C7_FinishedTaskBecomesSuccess ==
    \A id \in TaskIds :
        (status[id] = "running"
            /\ \E u \in UnitIds : units[u].id = id /\ units[u].pc = "completed")
        ~> (status[id] = "success")

\* ---- PriorityQueue claims, under SpecQueue (C9 under SpecPutGet)

\* the items of h that are no longer in g
Gone(h, g) == {i \in 1..Len(h) : \A j \in 1..Len(g) : g[j].seq # h[i].seq}

C9_EqualPriorityFifo ==
    [][(get /\ qlast'.res = "item")
          => \A i \in 1..Len(queue) :
                queue[i].priority = HeapTop(queue).priority
                    => HeapTop(queue).seq <= queue[i].seq]_vars

\* C10: a put on a queue at capacity (maxsize > 0, size = maxsize) takes out an
\* item of the highest rank value present, never one of higher priority than
\* another item that stays
C10_EvictsLowestPriority ==
    [][(nput' = nput + 1 /\ maxsize > 0 /\ Len(queue) = maxsize)
          => \A i \in Gone(queue, queue') : \A k \in 1..Len(queue) :
                queue[k].priority <= queue[i].priority]_vars

\* C11: a get that found an item available (it did not run into its timeout)
\* returns an item, never None, whatever the other producers and consumers did
C11_NoneOnlyOnTimeout ==
    [][get => qlast'.res = "item"]_vars

\* ---- RequestDeduplicator claims, under SpecDedup

Stored(fp) == fp \in DOMAIN seen_requests
Inserting ==
    \/ dlast'.op = "add_fingerprint"
    \/ dlast'.op = "should_skip_request" /\ dlast'.res = "False"

FirstPos(fp) == CHOOSE i \in 1..Len(request_order) :
                    /\ request_order[i] = fp
                    /\ \A j \in 1..(i - 1) : request_order[j] # fp
LastPos(fp) == CHOOSE i \in 1..Len(request_order) :
                   /\ request_order[i] = fp
                   /\ \A j \in (i + 1)..Len(request_order) : request_order[j] # fp

\* the stored entries that are the oldest-inserted one, counting an entry
\* from its first or from its last insertion
Oldest == {f \in DOMAIN seen_requests :
              \/ \A g \in DOMAIN seen_requests : FirstPos(f) <= FirstPos(g)
              \/ \A g \in DOMAIN seen_requests : LastPos(f) <= LastPos(g)}

\* C13: an insertion of a fingerprint that is not stored into a store holding
\* max_size entries takes out exactly the entry inserted earliest; an
\* insertion into a store below max_size takes out nothing
C13_EvictsOldestOnly ==
    [][\A fp \in Fingerprints :
        (Inserting /\ dlast'.fp = fp /\ ~Stored(fp)) =>
            IF Cardinality(DOMAIN seen_requests) >= max_size
            THEN \E old \in Oldest :
                    DOMAIN seen_requests' = (DOMAIN seen_requests \ {old}) \cup {fp}
            ELSE DOMAIN seen_requests' = DOMAIN seen_requests \cup {fp}]_vars

\* C14: with a ttl, is_duplicate of a stored entry answers False and removes
\* the entry when its age (the time since its insertion) exceeds ttl, and
\* answers True and keeps it otherwise
C14_TtlByAge ==
    [][\A fp \in Fingerprints, t \in Readings :
        (is_duplicate(fp, t) /\ ttl # 0 /\ Stored(fp)) =>
            IF t - seen_requests[fp].added > 2 * ttl
            THEN dlast'.res = "False" /\ fp \notin DOMAIN seen_requests'
            ELSE dlast'.res = "True" /\ fp \in DOMAIN seen_requests']_vars

\* ---- RequestFingerprinter claims, under SpecFpr

\* how many times pair p occurs in query q
Count(q, p) == Cardinality({i \in 1..Len(q) : q[i] = p})
SamePairs(qa, qb) == \A p \in ParamKeys \X ParamValues : Count(qa, p) = Count(qb, p)

\* C15: with sort_parameters on, two requests of the same method, host, path
\* and body whose query strings hold the same name/value pairs in any two
\* orders get the same digest
C15_ParameterOrderIndependent ==
    (fpr.done /\ fpr.sort_parameters /\ SamePairs(fpr.q1, fpr.q2)) => fpr.d1 = fpr.d2

\* ---- RetryHandler claims, under SpecRetry

Ended == run.pc \in {"returned", "raised"}

\* the errors the handler is meant to retry: network and timeout errors
\* (unless switched off), rate-limit errors (unless switched off), proxy
\* errors, server errors, connection resets, the retryable status codes
Retryable(e) ==
    \/ e.type = "NetworkException" /\ handler.retry_on_timeout
    \/ e.type = "RateLimitException" /\ handler.retry_on_rate_limit
    \/ e.type \in {"ProxyException", "ServerException", "ServerDisconnectedError"}
    \/ e.type = "ClientResponseError" /\ e.status \in {429, 503}

\* C16: an operation that fails N times, each time with a retryable error,
\* and then succeeds, run with max_retries >= N: the call returns the
\* operation's value after exactly N+1 invocations (a run that ended by
\* raising a retryable error would be a failure that was not retried)
C16_SucceedsAfterNFailures ==
    (/\ Ended
     /\ run.fail_times <= handler.max_retries
     /\ (run.pc = "raised" => Retryable(run.raised)))
    => (run.pc = "returned" /\ run.result = "value" /\ run.calls = run.fail_times + 1)

C16_Witness ==
    /\ run.pc = "returned"
    /\ run.fail_times = 2
    /\ run.calls = 3
    /\ Retryable(run.last_exception)

\* C17: an operation that keeps failing with retryable errors is invoked
\* exactly max_retries + 1 times, and what the call raises is the exception
\* of the last invocation
C17_LastExceptionAfterAllAttempts ==
    (/\ Ended
     /\ run.fail_times > handler.max_retries
     /\ (run.pc = "raised" => Retryable(run.raised)))
    => (/\ run.pc = "raised"
        /\ run.calls = handler.max_retries + 1
        /\ run.raised \in Exceptions(run.calls)
        /\ run.raised = run.last_exception)

C17_Witness ==
    /\ run.pc = "raised"
    /\ handler.max_retries = 2
    /\ run.calls = 3
    /\ Retryable(run.raised)

\* what C18 calls a non-retryable failure: an unclassified exception that no
\* custom exception-name rule matches, or a 4xx response other than 408, 429
NotRetryable(e) ==
    \/ e.type \in {"ClientPayloadError", "ValueError"} /\ e.type \notin DOMAIN handler.exceptions
    \/ e.type = "ClientResponseError" /\ 400 <= e.status /\ e.status < 500
       /\ e.status \notin {408, 429}

\* C18 as stated: the first invocation raising a non-retryable failure ends
\* the call, with that exception
C18_NonRetryableNotRetried ==
    (run.calls >= 1 /\ run.last_exception.n = 1 /\ NotRetryable(run.last_exception))
    => (run.pc = "raised" /\ run.calls = 1 /\ run.raised = run.last_exception)

\* C18, amended: the same, for a 4xx status that custom_retry_rules has not
\* added to the retried status codes
C18_NonRetryableUnlessCustomStatus ==
    (/\ run.calls >= 1
     /\ run.last_exception.n = 1
     /\ NotRetryable(run.last_exception)
     /\ run.last_exception.status \notin handler.status_codes)
    => (run.pc = "raised" /\ run.calls = 1 /\ run.raised = run.last_exception)

C18_Witness ==
    /\ run.pc = "raised"
    /\ run.calls = 1
    /\ handler.max_retries >= 1
    /\ handler.status_codes = {404}
    /\ run.raised.type = "ValueError"
    /\ NotRetryable(run.raised)

\* ---- CircuitBreaker claims, under SpecBreaker
\* bcall.streak counts the calls in a row, up to now, whose function raised
\* an exception the breaker counts; bcall.elapsed is the time since the
\* last such failure when the last call started

\* C19: after failure_threshold failed calls in a row, no call that starts
\* before recovery_timeout has passed since the last failure gets as far
\* as the wrapped function
C19_OpenFailsFast ==
    (bcall.streak >= breaker.failure_threshold /\ bcall.elapsed < breaker.recovery_timeout)
    => bcall.pc # "running"

C19_Witness ==
    /\ bcall.op = "rejected"
    /\ breaker.failure_threshold = 2
    /\ bcall.streak = 2
    /\ bcall.elapsed < breaker.recovery_timeout

\* C20: a call on an open breaker made recovery_timeout seconds or more
\* after the last failure is not rejected; the trial returning leaves the
\* breaker closed with failure_count 0, the trial failing leaves it open
\* with last_failure_time the time of that failure
C20_TrialAfterTimeout ==
    /\ bcall.op = "rejected" => bcall.elapsed < breaker.recovery_timeout
    /\ bcall.op = "trial_returned" => (breaker.state = "closed" /\ breaker.failure_count = 0)
    /\ (bcall.op = "trial_raised" /\ bcall.streak > 0)
       => (breaker.state = "open" /\ breaker.last_failure_time = bnow)

\* ---- AdaptiveRetryHandler claims, under SpecAdaptive

\* C21: a call that starts once at least ten calls were counted, on an
\* operation that never succeeds, makes as many attempts as the
\* max_retries adapted before it started allows, and backs off from the
\* base delay adapted before it started
C21_AdaptedValuesGovernNextCall ==
    (alast.op = "raised" /\ alast.counted >= MinRequests)
    => (/\ alast.attempts = alast.adaptive_max_retries + 1
        /\ alast.base_delay = alast.adaptive_base_delay)

\* ---- EnhancedDownloader claims, under SpecRequest

Answered(sts) == req.met.kind = "response" /\ req.met.status \in sts

\* C22: what _single_request raises to the retry handler: RateLimit for a
\* 429 answer, Server for a 5xx answer, Proxy for 407 (and 502, 503, where
\* Server is accepted too) through a proxy, Cookie for 401 and 403 with
\* cookies, Timeout for a timeout, Network for a connection reset
C22_TypedErrorReachesRetryHandler ==
    req.out # NoOutcome =>
      /\ Answered({429}) => req.out = Raise("RateLimitException")
      /\ Answered({500, 501, 502, 503, 504}) =>
            \/ req.out = Raise("ServerException")
            \/ req.proxy /\ req.met.status \in {502, 503} /\ req.out = Raise("ProxyException")
      /\ (Answered({407}) /\ req.proxy) => req.out = Raise("ProxyException")
      /\ (Answered({401, 403}) /\ req.cookies) => req.out = Raise("CookieException")
      /\ req.met = Raise("TimeoutError") => req.out = Raise("TimeoutException")
      /\ req.met.type \in {"ClientOSError", "ServerDisconnectedError"}
            => req.out = Raise("NetworkException")

\* ---- download_batch claims, under SpecBatch

\* C23: the batch ends only by returning a list as long as urls whose i-th
\* entry is what the download of urls[i] returned or raised, and every
\* download of the batch has run by then, whichever of them failed
C23_OneEntryPerUrlInOrder ==
    batch.state # "gathering" =>
      /\ batch.state = "returned"
      /\ Len(batch.result) = Len(batch.pc)
      /\ \A i \in DOMAIN batch.pc :
            /\ batch.pc[i] = "done"
            /\ batch.result[i].of = i
            /\ batch.result[i] = batch.out[i]

\* three URLs, the download of the second failed, the others succeeded
C23_Witness ==
    /\ batch.state = "returned"
    /\ Len(batch.result) = 3
    /\ batch.result[2].kind = "exception"
    /\ batch.result[1].kind = "tuple"
    /\ batch.result[3].kind = "tuple"

\* ---- TaskScheduler claims, under SpecSched

\* C24: an interval task that has fired and is not running is due again
\* once interval_seconds have passed since that firing, so that the next
\* scheduling pass fires it
C24_IntervalDueAgain ==
    LET o == sobj["interval"]
    IN (o.fires >= 1 /\ o.status # "running" /\ snow >= o.last_run + o.interval_seconds)
       => ShouldRunTask("interval", o, snow)

\* l has finished a pass that started at or after time t with task id in
\* its copy of the dict
PassedOver(l, id, t) ==
    /\ sched.loops[l].pc = "sleeping"
    /\ sched.loops[l].current_time >= t
    /\ \E i \in 1..Len(sched.loops[l].snapshot) : sched.loops[l].snapshot[i] = id

Scheduled(id) == \E i \in 1..Len(scheduled_tasks) : scheduled_tasks[i] = id

\* C25: a one-time task is fired at most once, by a pass that started at or
\* after its run_date; no pass that started at or after run_date and found
\* the task ends without the task fired; once run, the task is gone from
\* the scheduled tasks
C25_OneTimeFiresOnce ==
    LET o == sobj["one_time"]
    IN /\ o.fires <= 1
       /\ o.fires = 1 => o.fired_pass >= o.next_run
       /\ \A l \in 1..MaxLoops : PassedOver(l, "one_time", o.next_run) => o.fires = 1
       /\ o.status = "completed" => ~Scheduled("one_time")

\* the task was not due in the pass at time 0 and ran in a later pass
C25_Witness ==
    /\ sobj["one_time"].status = "completed"
    /\ sobj["one_time"].fires = 1
    /\ sobj["one_time"].next_run = CheckInterval
    /\ sobj["one_time"].fired_pass >= CheckInterval
    /\ ~Scheduled("one_time")

C27_FailureSeenAfterRetries ==
    \A i \in 1..Len(fetch.log) :
        LET e == fetch.log[i]
        IN (e.met.kind = "raise" /\ e.met.type \in RetryableTransport)
           => /\ e.attempts = fetch.retry_times + 1
              /\ e.caught = e.met.type

\* C29: Downloader.download never raises on a transport failure: a timeout
\* returns status 408 and a failed connection returns status 500
C29_TransportFailureReturnsStatus ==
    \A i \in 1..Len(fetch.log) :
        LET e == fetch.log[i]
        IN e.met.kind = "raise"
           => e.out = Return(IF e.met.type = "TimeoutError" THEN 408 ELSE 500)

\* the rule of a field raises or matches nothing
Broken(r) == r.raises \/ r.found = <<>>

Terminal == {"success", "failed", "cancelled"}

\* C30: a status that is terminal is changed by no step of a
\* TaskService.start_task or stop_task call, whatever the interleaving
C30_TerminalStatusIsFinal ==
    [][\A id \in TaskIds : status[id] \in Terminal => status'[id] = status[id]]_vars

\* the downloads of the batch that are in flight
InFlight == {i \in DOMAIN batch.pc : batch.pc[i] = "downloading"}

\* C31: during download_batch the number of downloads in flight never
\* exceeds the limit the semaphore was made with
C31_InFlightWithinLimit == Cardinality(InFlight) <= batch.limit

\* as many downloads in flight as the limit allows, and a coroutine waiting
C31_Witness ==
    /\ batch.state = "gathering"
    /\ Cardinality(InFlight) = batch.limit
    /\ \E i \in DOMAIN batch.pc : batch.pc[i] = "created"

\* unit u has not exited
Alive(u) == ~UnitDone(u)

\* C32: while the id of a unit that has not exited is absent from the
\* registry, no step makes the unit start the download of another URL or
\* makes the result list of its id longer
C32_RemovedUnitDoesNoMore ==
    [][\A u \in 1..Len(units) :
          (Alive(u) /\ units[u].id \notin DOMAIN active_tasks) =>
             /\ ~(units'[u].pc = "download" /\ units'[u].idx # units[u].idx)
             /\ units[u].id \in DOMAIN results /\ units[u].id \in DOMAIN results' =>
                   Len(results'[units[u].id]) <= Len(results[units[u].id])]_vars

\* C33: a unit that start_task spawned and that has not exited has its id
\* in the registry
C33_LiveUnitIsRegistered ==
    \A u \in 1..Len(units) : Alive(u) => units[u].id \in DOMAIN active_tasks

\* C34: a stop_task that resumes from its await while the id is registered
\* to a unit other than the one it cancelled leaves that registration
C34_StopKeepsNewRegistration ==
    [][\A c \in Callers :
          (/\ call[c].op = "stop"
           /\ call[c].pc = "await_unit"
           /\ call'[c].op = "idle"
           /\ call[c].id \in DOMAIN active_tasks
           /\ active_tasks[call[c].id] # call[c].unit)
          => /\ call[c].id \in DOMAIN active_tasks'
             /\ active_tasks'[call[c].id] = active_tasks[call[c].id]]_vars

\* C35: a TaskService.start_task call that ends with the engine's conflict
\* error leaves the stored status of the task as it was
C35_RejectedStartKeepsStatus ==
    [][\A c \in Callers :
          (/\ call[c].op = "svc_start"
           /\ call[c].res = "TaskConflictException"
           /\ call'[c].op = "idle")
          => status'[call[c].id] = status[call[c].id]]_vars

\* task id was added and is no longer among the scheduled tasks: a
\* remove_task has returned True for it
Removed(id) == sobj[id].status # "absent" /\ ~Scheduled(id)

\* C36: no step starts an execution of a task that has been removed
C36_RemovedTaskNeverRuns ==
    [][\A id \in SchedIds : Removed(id) => sobj'[id].fires = sobj[id].fires]_vars

\* the ids of the items in the heap
HeapIds == {queue[i].item_id : i \in 1..Len(queue)}

\* C37: the ids in the lookup map are exactly the ids of the items in the
\* heap, one map entry for each item of the heap
C37_MapMatchesHeap ==
    /\ DOMAIN item_map = HeapIds
    /\ Cardinality(DOMAIN item_map) = Len(queue)

\* C39: with maxsize > 0 the queue never holds more than maxsize items
C39_SizeWithinMaxsize == maxsize > 0 => Len(queue) <= maxsize

\* a put on a full queue has made room and added its item
C39_Witness ==
    /\ maxsize > 0
    /\ Len(queue) = maxsize
    /\ nput > maxsize
    /\ qlast.op = "put"
    /\ qlast.res = "id"

\* C38: the store never holds more than max_size fingerprints
C38_StoreWithinMaxSize == Cardinality(DOMAIN seen_requests) <= max_size

\* C40: the breaker is closed only with failure_count below the threshold,
\* and open or half-open only with failure_count at or above it
C40_StateMatchesCount ==
    /\ breaker.state = "closed" => breaker.failure_count < breaker.failure_threshold
    /\ breaker.state \in {"open", "half-open"} =>
          breaker.failure_count >= breaker.failure_threshold

\* a trial call has returned and closed a breaker that took more than one
\* failure to open
C40_Witness ==
    /\ bcall.op = "trial_returned"
    /\ breaker.state = "closed"
    /\ breaker.failure_count = 0
    /\ breaker.failure_threshold > 1

====
